---- MODULE Spec2Model ----
(***************************************************************************)
(* Model of the OCR text parser (src/src/lib/ocrParser.ts, the day/week    *)
(* variant, and src/unnamed/part_000, the session variant).                *)
(*                                                                         *)
(* Texts are TLA+ strings.  A JavaScript regular expression is a syntax    *)
(* tree (Lit, Set, Cat, Alt, Rep, Grp, NLA, Bol, Eol, WB) and Run is the   *)
(* backtracking matcher of ECMAScript: alternatives left to right, greedy  *)
(* quantifiers longest first, lazy ones shortest first, first success      *)
(* wins.  Numbers that parseFloat returns are kept in hundredths (the      *)
(* amounts have at most two decimals), NaN is the value NaN.               *)
(***************************************************************************)
EXTENDS Integers, Sequences, FiniteSets, TLC

VARIABLES
    fn,       \* which function the run exercises
    text,     \* the input string (rawOcrText, or the argument of a utility parser)
    input,    \* how the input was put together (the values the text was written from)
    year,     \* what new Date().getFullYear() returns during the call
    pc,       \* "call" before the call, "done" after it
    result    \* the value returned

vars == <<fn, text, input, year, pc, result>>

----------------------------------------------------------------------------
(* Characters *)

Digit == {"0", "1", "2", "3", "4", "5", "6", "7", "8", "9"}
LowerAZ == {"a", "b", "c", "d", "e", "f", "g", "h", "i", "j", "k", "l", "m",
            "n", "o", "p", "q", "r", "s", "t", "u", "v", "w", "x", "y", "z"}
UpperAZ == {"A", "B", "C", "D", "E", "F", "G", "H", "I", "J", "K", "L", "M",
            "N", "O", "P", "Q", "R", "S", "T", "U", "V", "W", "X", "Y", "Z"}
Alphabet == "abcdefghijklmnopqrstuvwxyz"
AlphabetUpper == "ABCDEFGHIJKLMNOPQRSTUVWXYZ"

\* U+2013 and U+2014 are written with two ASCII characters no input uses otherwise.
EnDash == "~"
EmDash == "^"

\* \s of ECMAScript, restricted to the white space an input can hold here.
WhiteSpace == {" ", "\t", "\n", "\r"}
\* Line terminators: what . does not match and where ^ and $ match under /m.
LineTerminator == {"\n", "\r"}
\* \w
WordChar == Digit \cup LowerAZ \cup UpperAZ \cup {"_"}

Ch(s, i) == SubSeq(s, i, i)

ToLowerChar(c) ==
    IF c \in UpperAZ
    THEN Ch(Alphabet, CHOOSE k \in 1..26 : Ch(AlphabetUpper, k) = c)
    ELSE c

ToUpperChar(c) ==
    IF c \in LowerAZ
    THEN Ch(AlphabetUpper, CHOOSE k \in 1..26 : Ch(Alphabet, k) = c)
    ELSE c

RECURSIVE ToLowerCase(_)
ToLowerCase(s) ==
    IF s = "" THEN "" ELSE ToLowerChar(Ch(s, 1)) \o ToLowerCase(SubSeq(s, 2, Len(s)))

RECURSIVE ToUpperCase(_)
ToUpperCase(s) ==
    IF s = "" THEN "" ELSE ToUpperChar(Ch(s, 1)) \o ToUpperCase(SubSeq(s, 2, Len(s)))

----------------------------------------------------------------------------
(* Regular expressions: syntax *)

Inf == 1000000

Lit(str) == [k |-> "lit", s |-> str]
Set(cs) == [k |-> "set", s |-> cs, neg |-> FALSE]
NotSet(cs) == [k |-> "set", s |-> cs, neg |-> TRUE]
Cat(rs) == [k |-> "cat", a |-> rs]
Alt(rs) == [k |-> "alt", a |-> rs]
Rep(r, lo, hi) == [k |-> "rep", r |-> r, min |-> lo, max |-> hi, lazy |-> FALSE]
LazyRep(r, lo, hi) == [k |-> "rep", r |-> r, min |-> lo, max |-> hi, lazy |-> TRUE]
Grp(n, r) == [k |-> "grp", n |-> n, r |-> r]
NLA(r) == [k |-> "nla", r |-> r]
Bol == [k |-> "bol"]
Eol == [k |-> "eol"]
WB == [k |-> "wb"]

Opt(r) == Rep(r, 0, 1)
Star(r) == Rep(r, 0, Inf)
Plus(r) == Rep(r, 1, Inf)
Dg == Set(Digit)
Ws == Set(WhiteSpace)
Dot == NotSet(LineTerminator)

\* A flag set: i (ignoreCase) and m (multiline).
Flags(ci, ml) == [i |-> ci, m |-> ml]
NoFlags == Flags(FALSE, FALSE)
FlagI == Flags(TRUE, FALSE)
FlagIM == Flags(TRUE, TRUE)

----------------------------------------------------------------------------
(* Regular expressions: the backtracking matcher *)

NoCaps == [n \in 1..3 |-> <<0, 0>>]
Fail == [ok |-> FALSE, end |-> 0, caps |-> NoCaps]

CharMatches(c, re, f) ==
    LET in == IF f.i
              THEN c \in re.s \/ ToLowerChar(c) \in re.s \/ ToUpperChar(c) \in re.s
              ELSE c \in re.s
    IN  in # re.neg

LitMatches(s, i, lit, f) ==
    /\ i + Len(lit) - 1 <= Len(s)
    /\ \A j \in 1..Len(lit) :
          IF f.i
          THEN ToLowerChar(Ch(s, i + j - 1)) = ToLowerChar(Ch(lit, j))
          ELSE Ch(s, i + j - 1) = Ch(lit, j)

IsWordAt(s, i) == i >= 1 /\ i <= Len(s) /\ Ch(s, i) \in WordChar

Min2(a, b) == IF a < b THEN a ELSE b

\* How many characters from position i on match the class re, at most hi.
ClassRun(s, i, re, f, hi) ==
    LET cap == Min2(hi, Len(s) - i + 1)
    IN  CHOOSE n \in 0..cap :
            /\ \A j \in 0..(n - 1) : CharMatches(Ch(s, i + j), re, f)
            /\ n = cap \/ ~CharMatches(Ch(s, i + n), re, f)

\* Of the attempts <<n, outcome>>, the successful one tried first: the one with
\* the most repetitions for a greedy quantifier, with the fewest for a lazy one.
FirstSuccess(tries, lazy) ==
    LET oks == {t \in tries : t[2].ok}
    IN  IF oks = {} THEN Fail
        ELSE (CHOOSE t \in oks :
                 \A u \in oks : IF lazy THEN t[1] <= u[1] ELSE t[1] >= u[1])[2]

\* Run(todo, f, s, i, caps): match the nodes of todo one after the other from
\* position i of s; the outcome of the first way that succeeds in the
\* backtracking order, or Fail.
RECURSIVE Run(_, _, _, _, _)
Run(todo, f, s, i, caps) ==
    IF todo = <<>> THEN [ok |-> TRUE, end |-> i, caps |-> caps]
    ELSE
    LET re == Head(todo)
        rest == Tail(todo)
    IN  CASE re.k = "lit" ->
               IF LitMatches(s, i, re.s, f)
               THEN Run(rest, f, s, i + Len(re.s), caps) ELSE Fail
          [] re.k = "set" ->
               IF i <= Len(s) /\ CharMatches(Ch(s, i), re, f)
               THEN Run(rest, f, s, i + 1, caps) ELSE Fail
          [] re.k = "cat" -> Run(re.a \o rest, f, s, i, caps)
          [] re.k = "alt" ->
               IF re.a = <<>> THEN Fail
               ELSE LET r1 == Run(<<Head(re.a)>> \o rest, f, s, i, caps)
                    IN  IF r1.ok THEN r1
                        ELSE Run(<<Alt(Tail(re.a))>> \o rest, f, s, i, caps)
          [] re.k = "rep" /\ re.r.k = "set" ->
               \* a quantified character class: every count from min up to the
               \* length of the run of matching characters is a way to go on
               LET longest == ClassRun(s, i, re.r, f, re.max)
               IN  FirstSuccess({<<n, Run(rest, f, s, i + n, caps)>> : n \in re.min..longest},
                                re.lazy)
          [] re.k = "rep" /\ re.r.k # "set" ->
               LET more == IF re.max = 0 THEN Fail
                           ELSE Run(<<re.r,
                                      [k |-> "again", from |-> i,
                                       rep |-> [re EXCEPT !.min = IF re.min > 0 THEN re.min - 1 ELSE 0,
                                                          !.max = IF re.max = Inf THEN Inf ELSE re.max - 1]]>>
                                    \o rest, f, s, i, caps)
                   stop == IF re.min = 0 THEN Run(rest, f, s, i, caps) ELSE Fail
               IN  IF re.min > 0 THEN more
                   ELSE IF re.lazy
                        THEN (IF stop.ok THEN stop ELSE more)
                        ELSE (IF more.ok THEN more ELSE stop)
          [] re.k = "again" ->
               \* an iteration that consumed nothing ends the repetition
               IF i = re.from THEN Fail
               ELSE Run(<<re.rep>> \o rest, f, s, i, caps)
          [] re.k = "grp" ->
               Run(<<re.r, [k |-> "close", n |-> re.n, from |-> i]>> \o rest, f, s, i, caps)
          [] re.k = "close" ->
               Run(rest, f, s, i, [caps EXCEPT ![re.n] = <<re.from, i>>])
          [] re.k = "nla" ->
               IF Run(<<re.r>>, f, s, i, caps).ok THEN Fail
               ELSE Run(rest, f, s, i, caps)
          [] re.k = "bol" ->
               IF i = 1 \/ (f.m /\ Ch(s, i - 1) \in LineTerminator)
               THEN Run(rest, f, s, i, caps) ELSE Fail
          [] re.k = "eol" ->
               IF i = Len(s) + 1 \/ (f.m /\ Ch(s, i) \in LineTerminator)
               THEN Run(rest, f, s, i, caps) ELSE Fail
          [] re.k = "wb" ->
               IF IsWordAt(s, i - 1) # IsWordAt(s, i)
               THEN Run(rest, f, s, i, caps) ELSE Fail

\* The leftmost match (String.prototype.match without /g, RegExp.prototype.test):
\* [ok, start, end, caps], end exclusive.
Leftmost(found) == CHOOSE t \in found : \A u \in found : t[1] <= u[1]
MatchAt(t) == [ok |-> TRUE, start |-> t[1], end |-> t[2].end, caps |-> t[2].caps]
MatchOf(found) ==
    IF found = {} THEN [ok |-> FALSE, start |-> 0, end |-> 0, caps |-> NoCaps]
    ELSE MatchAt(Leftmost(found))
Match(s, re, f) ==
    MatchOf({t \in {<<i, Run(<<re>>, f, s, i, NoCaps)>> : i \in 1..(Len(s) + 1)} : t[2].ok})

Test(re, f, s) == Match(s, re, f).ok

\* match[0] and match[n]; Undefined for a group that did not take part.
Undefined == <<>>
Whole(s, m) == SubSeq(s, m.start, m.end - 1)
Group(s, m, n) ==
    IF m.caps[n] = <<0, 0>> THEN Undefined
    ELSE <<SubSeq(s, m.caps[n][1], m.caps[n][2] - 1)>>
\* a group that is known to have taken part
G(s, m, n) == SubSeq(s, m.caps[n][1], m.caps[n][2] - 1)

----------------------------------------------------------------------------
(* Built-in conversions *)

Null == <<>>
Some(v) == <<v>>
NaN == -1

DigitVal(c) == CHOOSE d \in 0..9 : Ch("0123456789", d + 1) = c

\* The value of a string of decimal digits.
RECURSIVE DigitsVal(_)
DigitsVal(s) ==
    IF s = "" THEN 0
    ELSE 10 * DigitsVal(SubSeq(s, 1, Len(s) - 1)) + DigitVal(Ch(s, Len(s)))

\* The length of the longest prefix of s from position i made of digits.
DigitRun(s, i) ==
    CHOOSE n \in 0..(Len(s) - i + 1) :
        /\ \A j \in 0..(n - 1) : Ch(s, i + j) \in Digit
        /\ n = Len(s) - i + 1 \/ Ch(s, i + n) \notin Digit

\* parseInt(s) of a string that starts with a digit: its leading digits.
ParseInt(s) == DigitsVal(SubSeq(s, 1, DigitRun(s, 1)))

\* parseFloat(s) of a string without sign, exponent or leading white space,
\* in hundredths: the longest prefix digits[.digits] or .digits, NaN when there
\* is none.  Decimals after the second are dropped (no caller has them).
ParseFloat(s) ==
    LET n == DigitRun(s, 1)
        dot == n + 1 <= Len(s) /\ Ch(s, n + 1) = "."
        fr == IF dot THEN DigitRun(s, n + 2) ELSE 0
        frac == SubSeq(s, n + 2, n + 1 + fr)
        cents == IF fr = 0 THEN 0
                 ELSE IF fr = 1 THEN 10 * DigitsVal(frac)
                 ELSE DigitsVal(SubSeq(frac, 1, 2))
    IN  IF n = 0 /\ fr = 0 THEN NaN
        ELSE 100 * DigitsVal(SubSeq(s, 1, n)) + cents

\* String(n) of a non-negative integer.
RECURSIVE NumToString(_)
NumToString(n) ==
    IF n < 10 THEN Ch("0123456789", n + 1)
    ELSE NumToString(n \div 10) \o Ch("0123456789", (n % 10) + 1)

\* s.padStart(2, "0")
PadStart2(s) == IF Len(s) < 2 THEN "0" \o s ELSE s

\* s.replace(",", ""): a string pattern replaces the first occurrence only.
IndexOf(s, c) ==
    LET at == {i \in 1..Len(s) : Ch(s, i) = c}
    IN  IF at = {} THEN 0 ELSE CHOOSE i \in at : \A j \in at : i <= j

ReplaceFirstComma(s) ==
    LET p == IndexOf(s, ",")
    IN  IF p = 0 THEN s ELSE SubSeq(s, 1, p - 1) \o SubSeq(s, p + 1, Len(s))

----------------------------------------------------------------------------
(* Utility parsers *)

\* /\$?([\d,]+\.?\d{0,2})/
ReCurrency ==
    Cat(<<Opt(Lit("$")),
          Grp(1, Cat(<<Plus(Set(Digit \cup {","})), Opt(Lit(".")), Rep(Dg, 0, 2)>>))>>)

\* return isNaN(val) ? null : val
NumberOrNull(val) == IF val = NaN THEN Null ELSE Some(val)
CurrencyOfMatch(t, match) ==
    IF ~match.ok THEN Null
    ELSE NumberOrNull(ParseFloat(ReplaceFirstComma(G(t, match, 1))))

parseCurrency(t) == CurrencyOfMatch(t, Match(t, ReCurrency, NoFlags))

\* h(?:r|rs|our|ours)?   and   m(?:in|ins)?
ReHourUnit == Cat(<<Lit("h"), Opt(Alt(<<Lit("r"), Lit("rs"), Lit("our"), Lit("ours")>>))>>)
ReMinUnit == Cat(<<Lit("m"), Opt(Alt(<<Lit("in"), Lit("ins")>>))>>)

\* /(\d+)\s*h(?:r|rs|our|ours)?\s*(\d+)\s*m(?:in|ins)?/i
ReDurationFull ==
    Cat(<<Grp(1, Plus(Dg)), Star(Ws), ReHourUnit, Star(Ws), Grp(2, Plus(Dg)), Star(Ws), ReMinUnit>>)
\* /(\d+)\s*h(?:r|rs|our|ours)?(?!\s*\d)/i
ReDurationHours ==
    Cat(<<Grp(1, Plus(Dg)), Star(Ws), ReHourUnit, NLA(Cat(<<Star(Ws), Dg>>))>>)
\* /(\d+)\s*m(?:in|ins)?(?!\s*\d)/i
ReDurationMins ==
    Cat(<<Grp(1, Plus(Dg)), Star(Ws), ReMinUnit, NLA(Cat(<<Star(Ws), Dg>>))>>)

\* DurationOfMatches with the hours-only value left in hours.
DurationOfMatches_HoursUnscaled(t, full, hoursOnly, minsOnly) ==
    IF full.ok THEN Some(ParseInt(G(t, full, 1)) * 60 + ParseInt(G(t, full, 2)))
    ELSE IF hoursOnly.ok THEN Some(ParseInt(G(t, hoursOnly, 1)))
    ELSE IF minsOnly.ok THEN Some(ParseInt(G(t, minsOnly, 1)))
    ELSE Null

\* The three attempts of parseDuration, in order.
DurationOfMatches(t, full, hoursOnly, minsOnly) ==
    IF full.ok THEN Some(ParseInt(G(t, full, 1)) * 60 + ParseInt(G(t, full, 2)))
    ELSE IF hoursOnly.ok THEN Some(ParseInt(G(t, hoursOnly, 1)) * 60)
    ELSE IF minsOnly.ok THEN Some(ParseInt(G(t, minsOnly, 1)))
    ELSE Null

parseDuration(t) ==
    DurationOfMatches(t, Match(t, ReDurationFull, FlagI), Match(t, ReDurationHours, FlagI),
                      Match(t, ReDurationMins, FlagI))

\* /(\d{1,2}):(\d{2})\s*(AM|PM)?/i
ReTime ==
    Cat(<<Grp(1, Rep(Dg, 1, 2)), Lit(":"), Grp(2, Rep(Dg, 2, 2)), Star(Ws),
          Opt(Grp(3, Alt(<<Lit("AM"), Lit("PM")>>)))>>)

\* match[3]?.toUpperCase()
Meridiem(g3) == IF g3 = Undefined THEN Undefined ELSE <<ToUpperCase(g3[1])>>

\* if (meridiem === "PM" && hours !== 12) hours += 12
AfterPM(hours, meridiem) == IF meridiem = <<"PM">> /\ hours # 12 THEN hours + 12 ELSE hours

\* AfterAM without the 12 AM rule.
AfterAM_NoMidnight(hours, meridiem) == hours

\* if (meridiem === "AM" && hours === 12) hours = 0
AfterAM(hours, meridiem) == IF meridiem = <<"AM">> /\ hours = 12 THEN 0 ELSE hours

TimeOfParts(hours, minutes, meridiem) ==
    Some(PadStart2(NumToString(AfterAM(AfterPM(hours, meridiem), meridiem)))
         \o ":" \o PadStart2(NumToString(minutes)))

TimeOfMatch(raw, match) ==
    IF ~match.ok THEN Null
    ELSE TimeOfParts(ParseInt(G(raw, match, 1)), ParseInt(G(raw, match, 2)),
                     Meridiem(Group(raw, match, 3)))

parseTime(raw) == TimeOfMatch(raw, Match(raw, ReTime, FlagI))

----------------------------------------------------------------------------
(* Loose dates *)

Letter == Set(LowerAZ \cup UpperAZ)
Dash == Set({"-", EnDash, EmDash})

\* MONTH_MAP: the keys and their values.
MONTH_MAP ==
    [jan |-> 0, feb |-> 1, mar |-> 2, apr |-> 3, may |-> 4, jun |-> 5,
     jul |-> 6, aug |-> 7, sep |-> 8, oct |-> 9, nov |-> 10, dec |-> 11,
     january |-> 0, february |-> 1, march |-> 2, april |-> 3, june |-> 5,
     july |-> 6, august |-> 7, september |-> 8, october |-> 9, november |-> 10,
     december |-> 11]

\* /([A-Za-z]+)\s+(\d{1,2})(?:,?\s*(\d{4}))?/
ReLooseDate ==
    Cat(<<Grp(1, Plus(Letter)), Plus(Ws), Grp(2, Rep(Dg, 1, 2)),
          Opt(Cat(<<Opt(Lit(",")), Star(Ws), Grp(3, Rep(Dg, 4, 4))>>))>>)

\* parseLooseDate(raw) with y the current year (no caller passes a year).
\* MONTH_MAP is a plain object: the key "constructor" finds Object.prototype's
\* function, which is not undefined, and month + 1 is then a string.
MonthPlus1(key) ==
    IF key = "constructor"
    THEN "function Object() { [native code] }1"
    ELSE NumToString(MONTH_MAP[key] + 1)

\* match[3] ? parseInt(match[3]) : (year ?? new Date().getFullYear())
FullYear(g3, y) == IF g3 # Undefined THEN ParseInt(g3[1]) ELSE y

DateOfParts(key, day, fullYear) ==
    IF key \notin DOMAIN MONTH_MAP /\ key # "constructor" THEN Null
    ELSE Some(NumToString(fullYear) \o "-" \o PadStart2(MonthPlus1(key))
              \o "-" \o PadStart2(NumToString(day)))

DateOfMatch(raw, match, y) ==
    IF ~match.ok THEN Null
    ELSE DateOfParts(ToLowerCase(G(raw, match, 1)), ParseInt(G(raw, match, 2)),
                     FullYear(Group(raw, match, 3), y))

parseLooseDate(raw, y) == DateOfMatch(raw, Match(raw, ReLooseDate, NoFlags), y)

----------------------------------------------------------------------------
(* Entry-type detection (day/week variant) *)

\* /^\s*dashes\s*$/im
ReDashesHeader == Cat(<<Bol, Star(Ws), Lit("dashes"), Star(Ws), Eol>>)
\* /week\s+of/i
ReWeekOf == Cat(<<Lit("week"), Plus(Ws), Lit("of")>>)
\* /[a-z]{3,9}\s+\d{1,2}\s*[–—-]+\s*\d{1,2}(?!\s*[a-z])/i
ReCompactRange ==
    Cat(<<Rep(Set(LowerAZ), 3, 9), Plus(Ws), Rep(Dg, 1, 2), Star(Ws), Plus(Dash), Star(Ws),
          Rep(Dg, 1, 2), NLA(Cat(<<Star(Ws), Set(LowerAZ)>>))>>)
\* /[a-z]{3,9}\s+\d{1,2}\s*[–—-]+\s*[a-z]{3,9}\s+\d{1,2}/i
ReCrossMonthRange ==
    Cat(<<Rep(Set(LowerAZ), 3, 9), Plus(Ws), Rep(Dg, 1, 2), Star(Ws), Plus(Dash), Star(Ws),
          Rep(Set(LowerAZ), 3, 9), Plus(Ws), Rep(Dg, 1, 2)>>)
\* /start\s+time/i   /end\s+time/i   /start\s+time|end\s+time/i
ReStartTime == Cat(<<Lit("start"), Plus(Ws), Lit("time")>>)
ReEndTime == Cat(<<Lit("end"), Plus(Ws), Lit("time")>>)
ReStartOrEndTime == Alt(<<ReStartTime, ReEndTime>>)
\* /[a-z]{3,9}\s+\d{1,2},\s*\d{4}/i
ReDateWithYear ==
    Cat(<<Rep(Set(LowerAZ), 3, 9), Plus(Ws), Rep(Dg, 1, 2), Lit(","), Star(Ws), Rep(Dg, 4, 4)>>)
\* /^(mon|tue|wed|thu|fri|sat|sun)[a-z]*/im
ReWeekdayShort ==
    Cat(<<Bol, Grp(1, Alt(<<Lit("mon"), Lit("tue"), Lit("wed"), Lit("thu"), Lit("fri"),
                            Lit("sat"), Lit("sun")>>)), Star(Set(LowerAZ))>>)
\* /^(monday|tuesday|wednesday|thursday|friday|saturday|sunday)/im
ReWeekdayLong ==
    Cat(<<Bol, Grp(1, Alt(<<Lit("monday"), Lit("tuesday"), Lit("wednesday"), Lit("thursday"),
                            Lit("friday"), Lit("saturday"), Lit("sunday")>>))>>)

detectEntryType(t) ==
    IF Test(ReDashesHeader, FlagIM, t) THEN "week"
    ELSE IF Test(ReWeekOf, FlagI, t) THEN "week"
    ELSE IF Test(ReCompactRange, FlagI, t) THEN "week"
    ELSE IF Test(ReCrossMonthRange, FlagI, t) THEN "week"
    ELSE IF Test(ReStartTime, FlagI, t) \/ Test(ReEndTime, FlagI, t) THEN "day"
    ELSE IF Test(ReDateWithYear, FlagI, t) THEN "day"
    ELSE LET hasWeekdayLine == Test(ReWeekdayShort, FlagIM, t) \/ Test(ReWeekdayLong, FlagIM, t)
         IN  IF hasWeekdayLine /\ Test(ReStartOrEndTime, FlagI, t) THEN "day"
             ELSE "unknown"

----------------------------------------------------------------------------
(* Strings: split, trim, slice *)

\* s.split(c) for a one-character separator c: the pieces after position from.
RECURSIVE SplitFrom(_, _, _)
SplitFrom(s, c, from) ==
    LET seps == {i \in from..Len(s) : Ch(s, i) = c}
    IN  IF seps = {} THEN <<SubSeq(s, from, Len(s))>>
        ELSE LET p == CHOOSE i \in seps : \A j \in seps : i <= j
             IN  <<SubSeq(s, from, p - 1)>> \o SplitFrom(s, c, p + 1)

Split(s, c) == SplitFrom(s, c, 1)

\* s.trim()
Trim(s) ==
    LET kept == {i \in 1..Len(s) : Ch(s, i) \notin WhiteSpace}
    IN  IF kept = {} THEN ""
        ELSE SubSeq(s, CHOOSE i \in kept : \A j \in kept : i <= j,
                       CHOOSE i \in kept : \A j \in kept : i >= j)

\* parseInt(s) of any string without sign or leading white space: NaN when it
\* does not start with a digit.
ParseIntOrNaN(s) == IF DigitRun(s, 1) = 0 THEN NaN ELSE ParseInt(s)

\* a < b on numbers: false when either is NaN.
LessThan(a, b) == a # NaN /\ b # NaN /\ a < b

----------------------------------------------------------------------------
(* Patterns shared by the week, day and session parsers *)

\* [\d]+\s*h(?:r|rs)?   and   [\d]+\s*m(?:in)?
ReHrs == Cat(<<Plus(Dg), Star(Ws), Lit("h"), Opt(Alt(<<Lit("r"), Lit("rs")>>))>>)
ReMins == Cat(<<Plus(Dg), Star(Ws), Lit("m"), Opt(Lit("in"))>>)
ColonOrSpace == Set(WhiteSpace \cup {":"})

\* /<label>\s+time[:\s]+([\d]+\s*h(?:r|rs)?\s*[\d]+\s*m(?:in)?)/i
ReLabelTimeHM(label) ==
    Cat(<<Lit(label), Plus(Ws), Lit("time"), Plus(ColonOrSpace),
          Grp(1, Cat(<<ReHrs, Star(Ws), ReMins>>))>>)
\* /<label>\s+time[:\s]+([\d]+\s*h(?:r|rs)?)/i
ReLabelTimeH(label) ==
    Cat(<<Lit(label), Plus(Ws), Lit("time"), Plus(ColonOrSpace), Grp(1, ReHrs)>>)
\* /<label>\s+time[:\s]+([\d]+\s*m(?:in)?)/i
ReLabelTimeM(label) ==
    Cat(<<Lit(label), Plus(Ws), Lit("time"), Plus(ColonOrSpace), Grp(1, ReMins)>>)

\* a ?? b ?? ... over text.match(re): the first match that is not null.
RECURSIVE FirstMatch(_, _, _)
OrNext(m, t, res, f) == IF m.ok THEN m ELSE FirstMatch(t, res, f)
FirstMatch(t, res, f) ==
    IF res = <<>> THEN Fail ELSE OrNext(Match(t, Head(res), f), t, Tail(res), f)

\* m ? parseDuration(m[1]) : null,  m ? parseCurrency(m[n]) : null,
\* m ? parseInt(m[1]) : null,  m ? parseTime(m[n]) : null
DurationOfGroup(t, m) == IF m.ok THEN parseDuration(G(t, m, 1)) ELSE Null
CurrencyOfGroup(t, m) == IF m.ok THEN parseCurrency(G(t, m, 1)) ELSE Null
CurrencyOfWhole(t, m) == IF m.ok THEN parseCurrency(Whole(t, m)) ELSE Null
IntOfGroup(t, m) == IF m.ok THEN Some(ParseInt(G(t, m, 1))) ELSE Null
TimeOfGroup(t, m, n) == IF m.ok THEN parseTime(G(t, m, n)) ELSE Null

\* activeMatch and active_time
ActiveTime(t) ==
    DurationOfGroup(t, FirstMatch(t, <<ReLabelTimeHM("active"), ReLabelTimeH("active"),
                                       ReLabelTimeM("active")>>, FlagI))

\* totalMatch and total_time
TotalTime(t) ==
    DurationOfGroup(t, FirstMatch(t, <<ReLabelTimeHM("dash"), ReLabelTimeH("dash"),
                                       ReLabelTimeM("dash"), ReLabelTimeHM("total"),
                                       ReLabelTimeH("total")>>, FlagI))

\* /\$[\d,]+\.\d{2}/
ReDollarAmount == Cat(<<Lit("$"), Plus(Set(Digit \cup {","})), Lit("."), Rep(Dg, 2, 2)>>)

\* earningsMatch and total_earnings
TotalEarnings(t) == CurrencyOfWhole(t, Match(t, ReDollarAmount, NoFlags))

----------------------------------------------------------------------------
(* Week parser *)

\* /([A-Za-z]+\s+\d{1,2})\s*[–—-]+\s*([A-Za-z]+\s+\d{1,2})/
ReFullRange ==
    Cat(<<Grp(1, Cat(<<Plus(Letter), Plus(Ws), Rep(Dg, 1, 2)>>)), Star(Ws), Plus(Dash), Star(Ws),
          Grp(2, Cat(<<Plus(Letter), Plus(Ws), Rep(Dg, 1, 2)>>))>>)
\* /([A-Za-z]+)\s+(\d{1,2})\s*[–—-]+\s*(\d{1,2})(?!\s*[a-z])/i
ReCompactDates ==
    Cat(<<Grp(1, Plus(Letter)), Plus(Ws), Grp(2, Rep(Dg, 1, 2)), Star(Ws), Plus(Dash), Star(Ws),
          Grp(3, Rep(Dg, 1, 2)), NLA(Cat(<<Star(Ws), Set(LowerAZ)>>))>>)
\* /completed\s+deliveries[:\s]+(\d+)/i
ReCompletedDeliveries ==
    Cat(<<Lit("completed"), Plus(Ws), Lit("deliveries"), Plus(ColonOrSpace), Grp(1, Plus(Dg))>>)
\* /(\d+)\s+completed\s+deliveri(?:es|ed)/i
ReNCompletedDeliveries ==
    Cat(<<Grp(1, Plus(Dg)), Plus(Ws), Lit("completed"), Plus(Ws), Lit("deliveri"),
          Alt(<<Lit("es"), Lit("ed")>>)>>)
\* /(\d+)\s+deliveri(?:es|ed)/i
ReNDeliveries ==
    Cat(<<Grp(1, Plus(Dg)), Plus(Ws), Lit("deliveri"), Alt(<<Lit("es"), Lit("ed")>>)>>)
\* /deliveries[:\s]+(\d+)/i
ReDeliveriesN == Cat(<<Lit("deliveries"), Plus(ColonOrSpace), Grp(1, Plus(Dg))>>)

\* date_start.split("-")[1] and date_end.split("-")[0] as numbers
MonthOf(date) == ParseIntOrNaN(Split(date, "-")[2])
YearOf(date) == ParseIntOrNaN(Split(date, "-")[1])

\* Dec -> Jan: when the end month is before the start month the end is in the
\* next year.
YearWrap(date_start, date_end) ==
    IF date_start # Null /\ date_end # Null /\ LessThan(MonthOf(date_end[1]), MonthOf(date_start[1]))
    THEN Some(NumToString(YearOf(date_end[1]) + 1) \o "-" \o SubSeq(date_end[1], 6, Len(date_end[1])))
    ELSE date_end

\* <<date_start, date_end>> after the full-range attempt.
FullRangeDates(t, fullRangeMatch, y) ==
    IF fullRangeMatch.ok
    THEN <<parseLooseDate(G(t, fullRangeMatch, 1), y), parseLooseDate(G(t, fullRangeMatch, 2), y)>>
    ELSE <<Null, Null>>

\* <<date_start, date_end>> after the compact fallback.
CompactDates(t, dates, compactMatch, y) ==
    IF dates[1] = Null /\ compactMatch.ok
    THEN <<parseLooseDate(G(t, compactMatch, 1) \o " " \o G(t, compactMatch, 2), y),
           parseLooseDate(G(t, compactMatch, 1) \o " " \o G(t, compactMatch, 3), y)>>
    ELSE <<dates[1], YearWrap(dates[1], dates[2])>>

\* The date range of parseWeek: <<date_start, date_end>>.
WeekDates(t, y) ==
    CompactDates(t, FullRangeDates(t, Match(t, ReFullRange, NoFlags), y),
                 Match(t, ReCompactDates, FlagI), y)

WeekRecord(t, dates) ==
    [date_start |-> dates[1],
     date_end |-> dates[2],
     active_time |-> ActiveTime(t),
     total_time |-> TotalTime(t),
     completed_deliveries |->
         IntOfGroup(t, FirstMatch(t, <<ReCompletedDeliveries, ReNCompletedDeliveries,
                                       ReNDeliveries, ReDeliveriesN>>, FlagI)),
     total_earnings |-> TotalEarnings(t)]

parseWeek(t, y) == WeekRecord(t, WeekDates(t, y))

----------------------------------------------------------------------------
(* Day and session parsers *)

\* /(?:mon|tue|wed|thu|fri|sat|sun)[a-z]*[,\s]+([A-Za-z]+\s+\d{1,2}(?:,?\s*\d{4})?)/i
ReWeekdayDate ==
    Cat(<<Alt(<<Lit("mon"), Lit("tue"), Lit("wed"), Lit("thu"), Lit("fri"), Lit("sat"),
                Lit("sun")>>),
          Star(Set(LowerAZ)), Plus(Set(WhiteSpace \cup {","})),
          Grp(1, Cat(<<Plus(Letter), Plus(Ws), Rep(Dg, 1, 2),
                       Opt(Cat(<<Opt(Lit(",")), Star(Ws), Rep(Dg, 4, 4)>>))>>))>>)
\* /\b([A-Za-z]+\s+\d{1,2},\s*\d{4})\b/
ReStandaloneYear ==
    Cat(<<WB, Grp(1, Cat(<<Plus(Letter), Plus(Ws), Rep(Dg, 1, 2), Lit(","), Star(Ws),
                           Rep(Dg, 4, 4)>>)), WB>>)
\* \d{1,2}:\d{2}\s*(?:AM|PM)?
ReClock ==
    Cat(<<Rep(Dg, 1, 2), Lit(":"), Rep(Dg, 2, 2), Star(Ws), Opt(Alt(<<Lit("AM"), Lit("PM")>>))>>)
\* /start\s+time[:\s]+(\d{1,2}:\d{2}\s*(?:AM|PM)?)/i
ReStartLabel == Cat(<<Lit("start"), Plus(Ws), Lit("time"), Plus(ColonOrSpace), Grp(1, ReClock)>>)
\* /end\s+time[:\s]+(\d{1,2}:\d{2}\s*(?:AM|PM)?)/i
ReEndLabel == Cat(<<Lit("end"), Plus(Ws), Lit("time"), Plus(ColonOrSpace), Grp(1, ReClock)>>)
\* /(\d{1,2}:\d{2}\s*(?:AM|PM)?)\s*[–—-]+\s*(\d{1,2}:\d{2}\s*(?:AM|PM)?)/i
ReTimeRange == Cat(<<Grp(1, ReClock), Star(Ws), Plus(Dash), Star(Ws), Grp(2, ReClock)>>)
\* [\d,]+\.?\d{0,2}
ReAmountDigits == Cat(<<Plus(Set(Digit \cup {","})), Opt(Lit(".")), Rep(Dg, 0, 2)>>)
\* /doordash\s+pay[:\s]+\$?([\d,]+\.?\d{0,2})/i
ReBasePay ==
    Cat(<<Lit("doordash"), Plus(Ws), Lit("pay"), Plus(ColonOrSpace), Opt(Lit("$")),
          Grp(1, ReAmountDigits)>>)
\* /customer\s+tips?[:\s]+\$?([\d,]+\.?\d{0,2})/i
ReTips ==
    Cat(<<Lit("customer"), Plus(Ws), Lit("tip"), Opt(Lit("s")), Plus(ColonOrSpace), Opt(Lit("$")),
          Grp(1, ReAmountDigits)>>)
\* /^offers[:\s]+(\d+)/im
ReOffersCount == Cat(<<Bol, Lit("offers"), Plus(ColonOrSpace), Grp(1, Plus(Dg))>>)

\* OFFER_SKIP: /^(week|<unit>|date|total|active|start|end|deliveri|dash|offers?\s*$|dashes?\s*$
\*             |\d+\s+doordash\s+offer|doordash\s+pay|customer\s+tips?)/i
\* with <unit> "day" in the day/week variant and "session" in the session variant.
OFFER_SKIP(unit) ==
    Cat(<<Bol,
          Grp(1, Alt(<<Lit("week"), Lit(unit), Lit("date"), Lit("total"), Lit("active"),
                       Lit("start"), Lit("end"), Lit("deliveri"), Lit("dash"),
                       Cat(<<Lit("offer"), Opt(Lit("s")), Star(Ws), Eol>>),
                       Cat(<<Lit("dashe"), Opt(Lit("s")), Star(Ws), Eol>>),
                       Cat(<<Plus(Dg), Plus(Ws), Lit("doordash"), Plus(Ws), Lit("offer")>>),
                       Cat(<<Lit("doordash"), Plus(Ws), Lit("pay")>>),
                       Cat(<<Lit("customer"), Plus(Ws), Lit("tip"), Opt(Lit("s"))>>)>>))>>)

\* OFFER_AMOUNT_LINE: /v?\s*\$[\d,]+\.\d{2}\s*[>]?\s*$/i
OFFER_AMOUNT_LINE ==
    Cat(<<Opt(Lit("v")), Star(Ws), ReDollarAmount, Star(Ws), Opt(Set({">"})), Star(Ws), Eol>>)

\* /^(.+?)\s+v?\s*(\$[\d,]+\.\d{2})\s*[>]?\s*$/i
ReOffer ==
    Cat(<<Bol, Grp(1, LazyRep(Dot, 1, Inf)), Plus(Ws), Opt(Lit("v")), Star(Ws),
          Grp(2, ReDollarAmount), Star(Ws), Opt(Set({">"})), Star(Ws), Eol>>)
\* /^\d+$/
ReAllDigits == Cat(<<Bol, Plus(Dg), Eol>>)
\* /\$/
ReDollar == Lit("$")

\* The pre-join pass without the merge: every line stays on its own.
JoinLines_Unmerged(rawLines, i, unit) == [k \in 1..(Len(rawLines) - i + 1) |-> Trim(rawLines[k + i - 1])]

\* The pre-join pass from line i on: joinedLines.
RECURSIVE JoinLines(_, _, _)
JoinLines(rawLines, i, unit) ==
    IF i > Len(rawLines) THEN <<>>
    ELSE LET cur == Trim(rawLines[i])
             next == IF i + 1 <= Len(rawLines) THEN Trim(rawLines[i + 1]) ELSE ""
         IN  IF /\ cur # ""
                /\ ~Test(OFFER_SKIP(unit), FlagI, cur)
                /\ ~Test(ReDollar, NoFlags, cur)
                /\ Test(OFFER_AMOUNT_LINE, FlagI, next)
             THEN <<cur \o " " \o next>> \o JoinLines(rawLines, i + 2, unit)
             ELSE <<cur>> \o JoinLines(rawLines, i + 1, unit)

\* OfferOfParts without the sanity filter.
OfferOfParts_Unfiltered(store, earnings) == <<[store |-> store, total_earnings |-> earnings]>>

\* if (store.length > 2 && !/^\d+$/.test(store)) offers.push(...)
OfferOfParts(store, earnings) ==
    IF Len(store) > 2 /\ ~Test(ReAllDigits, NoFlags, store)
    THEN <<[store |-> store, total_earnings |-> earnings]>>
    ELSE <<>>

OfferOfMatch(trimmed, offerMatch) ==
    IF ~offerMatch.ok THEN <<>>
    ELSE OfferOfParts(Trim(G(trimmed, offerMatch, 1)), parseCurrency(G(trimmed, offerMatch, 2)))

OfferOfTrimmed(trimmed, unit) ==
    IF trimmed = "" \/ Test(OFFER_SKIP(unit), FlagI, trimmed) THEN <<>>
    ELSE OfferOfMatch(trimmed, Match(trimmed, ReOffer, FlagI))

\* The extraction pass over one joined line: the offers it adds (none or one).
OfferOfLine(line, unit) == OfferOfTrimmed(Trim(line), unit)

RECURSIVE ExtractOffers(_, _)
ExtractOffers(joinedLines, unit) ==
    IF joinedLines = <<>> THEN <<>>
    ELSE OfferOfLine(Head(joinedLines), unit) \o ExtractOffers(Tail(joinedLines), unit)

\* offers, from the text
Offers(t, unit) == ExtractOffers(JoinLines(Split(t, "\n"), 1, unit), unit)

\* weekdayDateMatch?.[1] ?? standaloneYearMatch?.[1] ?? null
DateRaw(t, weekdayDateMatch, standaloneYearMatch) ==
    IF weekdayDateMatch.ok THEN Some(G(t, weekdayDateMatch, 1))
    ELSE IF standaloneYearMatch.ok THEN Some(G(t, standaloneYearMatch, 1))
    ELSE Null

\* dateRaw ? parseLooseDate(dateRaw) : null
DateOfRaw(dateRaw, y) ==
    IF dateRaw # Null /\ dateRaw[1] # "" THEN parseLooseDate(dateRaw[1], y) ELSE Null

\* date
DayDate(t, y) ==
    DateOfRaw(DateRaw(t, Match(t, ReWeekdayDate, FlagI), Match(t, ReStandaloneYear, NoFlags)), y)

\* The time-range fallback, used when a labelled time is missing.
TimesOf(t, start_time, end_time, timeRangeMatch) ==
    IF (start_time = Null \/ end_time = Null) /\ timeRangeMatch.ok
    THEN <<IF start_time = Null THEN parseTime(G(t, timeRangeMatch, 1)) ELSE start_time,
           IF end_time = Null THEN parseTime(G(t, timeRangeMatch, 2)) ELSE end_time>>
    ELSE <<start_time, end_time>>

\* <<start_time, end_time>>
DayTimes(t) ==
    TimesOf(t, TimeOfGroup(t, Match(t, ReStartLabel, FlagI), 1),
            TimeOfGroup(t, Match(t, ReEndLabel, FlagI), 1), Match(t, ReTimeRange, FlagI))

\* deliveries
DayDeliveries(t) == IntOfGroup(t, FirstMatch(t, <<ReDeliveriesN, ReNDeliveries>>, FlagI))

\* base_pay and tips
BasePay(t) == CurrencyOfGroup(t, Match(t, ReBasePay, FlagI))
Tips(t) == CurrencyOfGroup(t, Match(t, ReTips, FlagI))

DayRecord(t, y, times) ==
    [date |-> DayDate(t, y),
     total_earnings |-> TotalEarnings(t),
     base_pay |-> BasePay(t),
     tips |-> Tips(t),
     start_time |-> times[1],
     end_time |-> times[2],
     active_time |-> ActiveTime(t),
     total_time |-> TotalTime(t),
     deliveries |-> DayDeliveries(t),
     offers |-> Offers(t, "day")]

parseDay(t, y) == DayRecord(t, y, DayTimes(t))

SessionRecord(t, y, times) ==
    [date |-> DayDate(t, y),
     total_earnings |-> TotalEarnings(t),
     base_pay |-> BasePay(t),
     tips |-> Tips(t),
     start_time |-> times[1],
     end_time |-> times[2],
     active_time |-> ActiveTime(t),
     total_time |-> TotalTime(t),
     offers_count |-> IntOfGroup(t, Match(t, ReOffersCount, FlagIM)),
     deliveries |-> DayDeliveries(t),
     offers |-> Offers(t, "session")]

parseSession(t, y) == SessionRecord(t, y, DayTimes(t))

----------------------------------------------------------------------------
(* Public API *)

\* ResultOfType without the day parse of an unknown text.
ResultOfType_UnknownUnparsed(type, rawText, y) ==
    IF type = "week" THEN [type |-> "week", week |-> parseWeek(rawText, y), raw |-> rawText]
    ELSE IF type = "day" THEN [type |-> "day", day |-> parseDay(rawText, y), raw |-> rawText]
    ELSE [type |-> "unknown", raw |-> rawText]

\* The three returns of parseOcrText; an unknown text still gets a day parse.
ResultOfType(type, rawText, y) ==
    IF type = "week" THEN [type |-> "week", week |-> parseWeek(rawText, y), raw |-> rawText]
    ELSE IF type = "day" THEN [type |-> "day", day |-> parseDay(rawText, y), raw |-> rawText]
    ELSE [type |-> "unknown", day |-> parseDay(rawText, y), raw |-> rawText]

\* parseOcrText of the day/week variant
parseOcrText(rawText, y) == ResultOfType(detectEntryType(rawText), rawText, y)

\* parseOcrText of the session variant
parseOcrTextSession(rawText, y) ==
    [raw |-> rawText, session |-> parseSession(rawText, y)]

----------------------------------------------------------------------------
(* parseOcrText on texts of a few lines *)

MaxLines == 2

\* What new Date().getFullYear() can return.
Years == {2025, 2026}

\* The lines a text is made of: a dated header, a labelled time, the week
\* signals, an offer, a name without amount, the base-pay line, an offer whose
\* name is a number, a base-pay line whose amount is a lone comma, an empty
\* line and the active time.
LinePool ==
    {"Mon, Jan 6", "Start Time 10:27 AM", "Dashes", "Feb 9-15", "Taco Bell v $14.40",
     "Some header", "DoorDash pay $12.95", "12 v $3.00", "DoorDash pay: ,", "",
     "Active Time 1hr30 min"}

LineSeqs == UNION {[1..n -> LinePool] : n \in 0..MaxLines}

\* lines.join("\n")
RECURSIVE JoinWithNewline(_)
JoinWithNewline(lines) ==
    IF lines = <<>> THEN ""
    ELSE IF Len(lines) = 1 THEN lines[1]
    ELSE lines[1] \o "\n" \o JoinWithNewline(Tail(lines))

Variants == {"parseOcrText", "parseOcrTextSession"}

\* The clock's year does not vary here; InitScenario varies it.
Init ==
    /\ fn \in Variants
    /\ input \in LineSeqs
    /\ text = JoinWithNewline(input)
    /\ year = 2025
    /\ pc = "call"
    /\ result = Null

\* ocrParser.ts: parseOcrText(rawText)
CallParseOcrText ==
    /\ pc = "call"
    /\ fn = "parseOcrText"
    /\ result' = parseOcrText(text, year)
    /\ pc' = "done"
    /\ UNCHANGED <<fn, text, input, year>>

\* part_000: parseOcrText(rawText)
CallParseOcrTextSession ==
    /\ pc = "call"
    /\ fn = "parseOcrTextSession"
    /\ result' = parseOcrTextSession(text, year)
    /\ pc' = "done"
    /\ UNCHANGED <<fn, text, input, year>>

Next == CallParseOcrText \/ CallParseOcrTextSession

Spec == Init /\ [][Next]_vars

\* The offer list of the returned record (a week record has none).
HasOffers == pc = "done" /\ (fn = "parseOcrTextSession" \/ (fn = "parseOcrText" /\ result.type # "week"))
ResultOffers == IF fn = "parseOcrTextSession" THEN result.session.offers ELSE result.day.offers

\* A scalar field: null or a number (never NaN), null or a string.
NumberOrNullField(v) == v = Null \/ (Len(v) = 1 /\ v[1] \in Nat)
StringOrNullField(v) == v = Null \/ (Len(v) = 1 /\ v[1] \in STRING)

OfferShape(o) ==
    /\ DOMAIN o = {"store", "total_earnings"}
    /\ o.store \in STRING
    /\ NumberOrNullField(o.total_earnings)

OffersShape(offers) ==
    /\ DOMAIN offers = 1..Len(offers)
    /\ \A k \in 1..Len(offers) : OfferShape(offers[k])

WeekShape(w) ==
    /\ DOMAIN w = {"date_start", "date_end", "active_time", "total_time",
                   "completed_deliveries", "total_earnings"}
    /\ StringOrNullField(w.date_start) /\ StringOrNullField(w.date_end)
    /\ NumberOrNullField(w.active_time) /\ NumberOrNullField(w.total_time)
    /\ NumberOrNullField(w.completed_deliveries) /\ NumberOrNullField(w.total_earnings)

DayFields ==
    {"date", "total_earnings", "base_pay", "tips", "start_time", "end_time", "active_time",
     "total_time", "deliveries", "offers"}

DayShape(d, fields) ==
    /\ DOMAIN d = fields
    /\ StringOrNullField(d.date)
    /\ StringOrNullField(d.start_time) /\ StringOrNullField(d.end_time)
    /\ \A name \in fields \ {"date", "start_time", "end_time", "offers"} :
          NumberOrNullField(d[name])
    /\ OffersShape(d.offers)

\* C1: for every input text the call returns (it never throws) a record whose
\* raw is the input; in the day/week variant type is week, day or unknown, a
\* week result holds the week record and no day record, a day or unknown
\* result holds the day record and no week record; in the session variant the
\* result holds the session record; every scalar field is null or a value of
\* its type and offers is a list.
C1_ResultShape ==
    /\ pc = "done" /\ fn = "parseOcrText" =>
          /\ result.raw = text
          /\ result.type \in {"week", "day", "unknown"}
          /\ result.type = "week" =>
                DOMAIN result = {"type", "week", "raw"} /\ WeekShape(result.week)
          /\ result.type \in {"day", "unknown"} =>
                DOMAIN result = {"type", "day", "raw"} /\ DayShape(result.day, DayFields)
    /\ pc = "done" /\ fn = "parseOcrTextSession" =>
          /\ DOMAIN result = {"raw", "session"}
          /\ result.raw = text
          /\ DayShape(result.session, DayFields \cup {"offers_count"})


\* An unknown text whose day parse found an offer and an active time.
C1_Witness ==
    /\ pc = "done" /\ fn = "parseOcrText"
    /\ input = <<"Taco Bell v $14.40", "Active Time 1hr30 min">>
    /\ result.type = "unknown"
    /\ result.day.active_time = Some(90)
    /\ Len(result.day.offers) = 1

\* s has sub as a substring.
Contains(s, sub) == \E i \in 1..(Len(s) - Len(sub) + 1) : SubSeq(s, i, i + Len(sub) - 1) = sub

\* The lines of the pool that begin with a skip label, and the label text of
\* a line: what stands before its amount.
SkipLabelLines == {"Start Time 10:27 AM", "Dashes", "DoorDash pay $12.95", "DoorDash pay: ,",
                   "Active Time 1hr30 min"}
LabelText(line) ==
    IF IndexOf(line, "$") = 0 THEN line ELSE Trim(SubSeq(line, 1, IndexOf(line, "$") - 1))

\* C5: no offer takes its store text from a line that begins with a skip label.
C5_NoOfferFromSkipLine ==
    HasOffers =>
        \A k \in 1..Len(ResultOffers) : \A i \in 1..Len(input) :
            input[i] \in SkipLabelLines => ~Contains(ResultOffers[k].store, LabelText(input[i]))

\* C6: every store in offers is longer than 2 characters and is not made of
\* digits only.
C6_StoresPassSanityFilter ==
    HasOffers =>
        \A k \in 1..Len(ResultOffers) :
            /\ Len(ResultOffers[k].store) > 2
            /\ \E i \in 1..Len(ResultOffers[k].store) : Ch(ResultOffers[k].store, i) \notin Digit

\* The numeric store of the first line is left out, the second line is kept.
C6_Witness ==
    /\ HasOffers
    /\ input = <<"12 v $3.00", "Taco Bell v $14.40">>
    /\ ResultOffers = <<[store |-> "Taco Bell", total_earnings |-> Some(1440)]>>

----------------------------------------------------------------------------
(* detectEntryType on texts that mix week signals and day signals *)

MaxDetectLines == 3

\* A standalone "Dashes" line, "week of", compact same-month day ranges and
\* cross-month ranges ("~" stands for the en dash).
WeekSignalLines ==
    {"Dashes", "Week of Jan 6", "Feb 9-15", "Feb 2-8", "Feb 9 ~ 15", "Dec 30 ~ Jan 5",
     "Jan 6 - Jan 12"}

\* The labelled times, a date with a 4-digit year, a weekday-prefixed line.
DaySignalLines == {"Start Time 10:27 AM", "End Time 12:12 PM", "Feb 8, 2026", "Mon, Jan 6"}

NoSignalLines == {"$34.20"}

DetectSeqs ==
    UNION {[1..n -> WeekSignalLines \cup DaySignalLines \cup NoSignalLines] : n \in 0..MaxDetectLines}

InitDetect ==
    /\ fn = "detectEntryType"
    /\ input \in DetectSeqs
    /\ text = JoinWithNewline(input)
    /\ year = 2025
    /\ pc = "call"
    /\ result = Null

CallDetectEntryType ==
    /\ pc = "call"
    /\ fn = "detectEntryType"
    /\ result' = detectEntryType(text)
    /\ pc' = "done"
    /\ UNCHANGED <<fn, text, input, year>>

SpecDetect == InitDetect /\ [][CallDetectEntryType]_vars

HasWeekSignal == \E i \in 1..Len(input) : input[i] \in WeekSignalLines

\* C2: a text that holds at least one week signal is classified week, whatever
\* day signals it also holds; day is returned only when there is no week signal.
C2_WeekSignalWins ==
    pc = "done" /\ fn = "detectEntryType" =>
        /\ HasWeekSignal => result = "week"
        /\ result = "day" => ~HasWeekSignal

----------------------------------------------------------------------------
(* parseCurrency: amounts written with thousands separators *)

MaxGroups == 2

\* The leading digits, the three-digit groups and the decimals an amount is written with.
Leads == {"0", "1", "7", "12"}
Triples == {"000", "234", "567"}
Decimals == {"", ".5", ".00", ".56", ".89"}
\* What precedes the amount in the text.
Prefixes == {"", "$", "Total $", "Total: ", "Tips, $", "Pay (net), ", "abc $"}
\* Texts that hold no amount.
NoAmountTexts == {"", "abc", "Total", "$", "n/a"}

GroupSeqs == UNION {[1..n -> Triples] : n \in 0..MaxGroups}

RECURSIVE JoinGroups(_)
JoinGroups(gs) == IF gs = <<>> THEN "" ELSE "," \o Head(gs) \o JoinGroups(Tail(gs))

AmountText(a) == a.lead \o JoinGroups(a.groups) \o a.dec

RECURSIVE GroupsValue(_, _)
GroupsValue(acc, gs) ==
    IF gs = <<>> THEN acc ELSE GroupsValue(1000 * acc + DigitsVal(Head(gs)), Tail(gs))

\* The amount written, in hundredths.
AmountValue(a) ==
    100 * GroupsValue(DigitsVal(a.lead), a.groups)
    + (IF a.dec = "" THEN 0
       ELSE IF Len(a.dec) = 2 THEN 10 * DigitsVal(SubSeq(a.dec, 2, 2))
       ELSE DigitsVal(SubSeq(a.dec, 2, 3)))

CurrencyInputs ==
    [kind : {"amount"}, prefix : Prefixes, lead : Leads, groups : GroupSeqs, dec : Decimals]
    \cup [kind : {"none"}, raw : NoAmountTexts]

CurrencyText(a) == IF a.kind = "amount" THEN a.prefix \o AmountText(a) ELSE a.raw

InitCurrency ==
    /\ fn = "parseCurrency"
    /\ input \in CurrencyInputs
    /\ text = CurrencyText(input)
    /\ year = 0
    /\ pc = "call"
    /\ result = Null

CallParseCurrency ==
    /\ pc = "call"
    /\ fn = "parseCurrency"
    /\ result' = parseCurrency(text)
    /\ pc' = "done"
    /\ UNCHANGED <<fn, text, input, year>>

SpecCurrency == InitCurrency /\ [][CallParseCurrency]_vars

\* C7: parseCurrency strips thousands separators: an amount written with comma
\* grouping, with one or with several commas (alone or after "$"), is returned
\* as the numeric value of the amount with every separator removed.
C7_StripsAllSeparators ==
    (/\ pc = "done"
     /\ fn = "parseCurrency"
     /\ input.kind = "amount"
     /\ input.prefix \in {"", "$"}
     /\ Len(input.groups) >= 1)
    => result = Some(AmountValue(input))

\* C8: parseCurrency returns null only when the text holds no numeric amount;
\* when an amount follows a label or other non-numeric text, punctuation
\* included, the amount is returned, and a zero amount is 0, not null.  (Stated
\* for amounts with at most one separator.)
C8_NullOnlyWhenAbsent ==
    (pc = "done" /\ fn = "parseCurrency")
    => /\ input.kind = "none" => result = Null
       /\ (input.kind = "amount" /\ Len(input.groups) <= 1)
          => result = Some(AmountValue(input))

----------------------------------------------------------------------------
(* parseDuration *)

MaxHours == 30
MaxMinutes == 61

\* The ways the claim writes a duration of X hours and Y minutes.
FullForms == {"Xh Ym", "X hr Y min", "XhrY min"}
HoursForms == {"Xh", "X hr"}
MinutesForms == {"Ym", "Y min"}
\* Texts with no digits followed by a unit.
NoDurationTexts == {"", "abc", "h", "min", "12", "1:30", "hr 5", "$5.00"}

DurationInputs ==
    [form : FullForms, x : 0..MaxHours, y : 0..MaxMinutes]
    \cup [form : HoursForms, x : 0..MaxHours]
    \cup [form : MinutesForms, y : 0..MaxMinutes]
    \cup [form : {"none"}, raw : NoDurationTexts]

DurationText(d) ==
    CASE d.form = "Xh Ym" -> NumToString(d.x) \o "h " \o NumToString(d.y) \o "m"
      [] d.form = "X hr Y min" -> NumToString(d.x) \o " hr " \o NumToString(d.y) \o " min"
      [] d.form = "XhrY min" -> NumToString(d.x) \o "hr" \o NumToString(d.y) \o " min"
      [] d.form = "Xh" -> NumToString(d.x) \o "h"
      [] d.form = "X hr" -> NumToString(d.x) \o " hr"
      [] d.form = "Ym" -> NumToString(d.y) \o "m"
      [] d.form = "Y min" -> NumToString(d.y) \o " min"
      [] d.form = "none" -> d.raw

InitDuration ==
    /\ fn = "parseDuration"
    /\ input \in DurationInputs
    /\ text = DurationText(input)
    /\ year = 0
    /\ pc = "call"
    /\ result = Null

CallParseDuration ==
    /\ pc = "call"
    /\ fn = "parseDuration"
    /\ result' = parseDuration(text)
    /\ pc' = "done"
    /\ UNCHANGED <<fn, text, input, year>>

SpecDuration == InitDuration /\ [][CallParseDuration]_vars

\* C9: parseDuration returns 60*X+Y for "Xh Ym", "X hr Y min" and "XhrY min",
\* 60*X for the hours-only forms (never read as minutes), Y for the
\* minutes-only forms, and null for a text with no digit-unit pattern.
C9_Duration ==
    (pc = "done" /\ fn = "parseDuration")
    => CASE input.form \in FullForms -> result = Some(60 * input.x + input.y)
         [] input.form \in HoursForms -> result = Some(60 * input.x)
         [] input.form \in MinutesForms -> result = Some(input.y)
         [] input.form = "none" -> result = Null

\* C9 witness: "1hr30 min" has been parsed to 90.
C9_Witness ==
    /\ pc = "done"
    /\ fn = "parseDuration"
    /\ text = "1hr30 min"
    /\ result = Some(90)

----------------------------------------------------------------------------
(* parseTime *)

MaxMinute == 59

\* The 12-hour clock of the claim.
ClockHours == 1..12
Meridiems == {"AM", "PM", ""}
\* Texts with no H:MM pattern.
NoTimeTexts == {"", "noon", "1027", "10.27", "10:2", "AM", ":30"}

TimeInputs ==
    [kind : {"time"}, h : ClockHours, mm : 0..MaxMinute, mer : Meridiems]
    \cup [kind : {"none"}, raw : NoTimeTexts]

TimeText(t) ==
    IF t.kind = "none" THEN t.raw
    ELSE NumToString(t.h) \o ":" \o PadStart2(NumToString(t.mm))
         \o (IF t.mer = "" THEN "" ELSE " " \o t.mer)

\* The hour of the 24-hour clock that hour h of the 12-hour clock is.
Hour24(h, mer) ==
    CASE mer = "AM" -> IF h = 12 THEN 0 ELSE h
      [] mer = "PM" -> IF h = 12 THEN 12 ELSE h + 12
      [] mer = "" -> h

InitTime ==
    /\ fn = "parseTime"
    /\ input \in TimeInputs
    /\ text = TimeText(input)
    /\ year = 0
    /\ pc = "call"
    /\ result = Null

CallParseTime ==
    /\ pc = "call"
    /\ fn = "parseTime"
    /\ result' = parseTime(text)
    /\ pc' = "done"
    /\ UNCHANGED <<fn, text, input, year>>

SpecTime == InitTime /\ [][CallParseTime]_vars

\* C10: parseTime gives the 24-hour HH:MM of "H:MM AM", "H:MM PM" and "H:MM"
\* (12 AM is 00, 12 PM stays 12, no meridiem keeps the hour), both parts
\* zero-padded to two digits, and null for a text with no H:MM pattern.
C10_Time24 ==
    (pc = "done" /\ fn = "parseTime")
    => IF input.kind = "none" THEN result = Null
       ELSE /\ result # Null
            /\ Len(result[1]) = 5
            /\ SubSeq(result[1], 3, 3) = ":"
            /\ DigitsVal(SubSeq(result[1], 1, 2)) = Hour24(input.h, input.mer)
            /\ DigitsVal(SubSeq(result[1], 4, 5)) = input.mm

\* C10 witness: "12:05 AM" has been converted to "00:05".
C10_Witness ==
    /\ pc = "done"
    /\ fn = "parseTime"
    /\ text = "12:05 AM"
    /\ result = Some("00:05")

----------------------------------------------------------------------------
(* The end-to-end day scenario *)

MaxActiveHours == 12

Weekdays ==
    {"Mon", "Tue", "Wed", "Thu", "Fri", "Sat", "Sun", "Monday", "Tuesday", "Wednesday",
     "Thursday", "Friday", "Saturday", "Sunday"}

\* The months by name, with their number in the calendar.
Months ==
    {[name |-> "Jan", n |-> 1], [name |-> "Feb", n |-> 2], [name |-> "Mar", n |-> 3],
     [name |-> "Apr", n |-> 4], [name |-> "May", n |-> 5], [name |-> "Jun", n |-> 6],
     [name |-> "Jul", n |-> 7], [name |-> "Aug", n |-> 8], [name |-> "Sep", n |-> 9],
     [name |-> "Oct", n |-> 10], [name |-> "Nov", n |-> 11], [name |-> "Dec", n |-> 12],
     [name |-> "January", n |-> 1], [name |-> "February", n |-> 2],
     [name |-> "March", n |-> 3], [name |-> "April", n |-> 4], [name |-> "June", n |-> 6],
     [name |-> "July", n |-> 7], [name |-> "August", n |-> 8], [name |-> "September", n |-> 9],
     [name |-> "October", n |-> 10], [name |-> "November", n |-> 11],
     [name |-> "December", n |-> 12]}

Stores == {"Taco Bell", "KFC", "Wendy's (2558)", "McDonald's", "7-11"}

ScenarioTimes == [kind : {"time"}, h : ClockHours, mm : {0, 27}, mer : {"AM", "PM"}]

ScenarioAmounts ==
    {[lead |-> "14", groups |-> <<>>, dec |-> ".40"], [lead |-> "0", groups |-> <<>>, dec |-> ".50"],
     [lead |-> "1", groups |-> <<"234">>, dec |-> ".50"]}

\* The scenario of the specification: Mon, Jan 6; 10:27 AM to 12:12 PM; 1hr30 min;
\* Taco Bell, $14.40.
BaseScenario ==
    [weekday |-> "Mon", month |-> [name |-> "Jan", n |-> 1], d |-> 6,
     start |-> [kind |-> "time", h |-> 10, mm |-> 27, mer |-> "AM"],
     end |-> [kind |-> "time", h |-> 12, mm |-> 12, mer |-> "PM"],
     x |-> 1, y |-> 30, store |-> "Taco Bell",
     amount |-> [lead |-> "14", groups |-> <<>>, dec |-> ".40"], year |-> 2025]

\* The scenario with one or two of its slots varied over the slot's values.
ScenarioInputs ==
    {[BaseScenario EXCEPT !.weekday = w, !.store = s] : w \in Weekdays, s \in Stores}
    \cup {[BaseScenario EXCEPT !.month = m, !.d = d, !.year = y] :
              m \in Months, d \in {1, 10, 31}, y \in Years}
    \cup {[BaseScenario EXCEPT !.start = t] : t \in ScenarioTimes}
    \cup {[BaseScenario EXCEPT !.end = t] : t \in ScenarioTimes}
    \cup {[BaseScenario EXCEPT !.x = x, !.y = y] : x \in 0..MaxActiveHours, y \in {0, 5, 30, 59}}
    \cup {[BaseScenario EXCEPT !.store = s, !.amount = a] : s \in Stores, a \in ScenarioAmounts}

ScenarioText(sc) ==
    JoinWithNewline(
        <<sc.weekday \o ", " \o sc.month.name \o " " \o NumToString(sc.d),
          "Start Time " \o TimeText(sc.start),
          "End Time " \o TimeText(sc.end),
          "Active Time " \o NumToString(sc.x) \o "hr" \o NumToString(sc.y) \o " min",
          sc.store \o " v $" \o AmountText(sc.amount)>>)

InitScenario ==
    /\ fn \in Variants
    /\ input \in ScenarioInputs
    /\ text = ScenarioText(input)
    /\ year = input.year
    /\ pc = "call"
    /\ result = Null

SpecScenario == InitScenario /\ [][Next]_vars

\* HH:MM of a time of the 12-hour clock.
Clock24(t) == PadStart2(NumToString(Hour24(t.h, t.mer))) \o ":" \o PadStart2(NumToString(t.mm))

\* What the scenario says the day (or session) record holds.
ScenarioRecord(r) ==
    /\ r.date = Some(NumToString(input.year) \o "-" \o PadStart2(NumToString(input.month.n))
                     \o "-" \o PadStart2(NumToString(input.d)))
    /\ r.start_time = Some(Clock24(input.start))
    /\ r.end_time = Some(Clock24(input.end))
    /\ r.active_time = Some(60 * input.x + input.y)
    /\ r.offers = <<[store |-> input.store, total_earnings |-> Some(AmountValue(input.amount))]>>

\* C3: a text made of the five lines of the scenario is classified day and its
\* record holds the date in the current year, the labelled times on the
\* 24-hour clock, the active minutes 60*X+Y and exactly the one offer of the
\* last line; the session variant returns the same fields in its session.
C3_DayScenario ==
    /\ pc = "done" /\ fn = "parseOcrText" => result.type = "day" /\ ScenarioRecord(result.day)
    /\ pc = "done" /\ fn = "parseOcrTextSession" => ScenarioRecord(result.session)

\* Apart from the classification the scenario holds: the session variant
\* returns the fields of the scenario for every input.
ScenarioHoldsInSession ==
    pc = "done" /\ fn = "parseOcrTextSession" => ScenarioRecord(result.session)

\* The day/week variant returns them whenever it classifies the text as day.
ScenarioHoldsWhenDay ==
    pc = "done" /\ fn = "parseOcrText" /\ result.type = "day" => ScenarioRecord(result.day)

----------------------------------------------------------------------------
(* The offer pre-join: a name line followed by an amount line *)

\* First lines: not empty, no "$"; none begins with a skip label, except that
\* "Days Inn" does in the day/week variant and "Session Taproom" in the
\* session variant.
FirstLines ==
    {"Taco Bell - 031435, Taco Bell", "Taco Bell", "  KFC ", "ab", "12", "Taco Bell v",
     "DoorDash", "Customer", "Days Inn", "Session Taproom"}

\* Second lines, which all match the amount pattern: the text, what of it
\* stands before the glyph and the amount (rest), whether the glyph or the
\* amount stands at the start or after white space (spaced), whether the line
\* is the amount alone (bare), and the amount in hundredths.
SecondLines ==
    {[text |-> "- 031435 v $14.40", rest |-> "- 031435", spaced |-> TRUE, bare |-> FALSE, cents |-> 1440],
     [text |-> "$5.00", rest |-> "", spaced |-> TRUE, bare |-> TRUE, cents |-> 500],
     [text |-> "v $7.00 >", rest |-> "", spaced |-> TRUE, bare |-> FALSE, cents |-> 700],
     [text |-> "$1,234.50", rest |-> "", spaced |-> TRUE, bare |-> TRUE, cents |-> 123450],
     [text |-> "pay $12.95", rest |-> "pay", spaced |-> TRUE, bare |-> FALSE, cents |-> 1295],
     [text |-> "tips $21.25", rest |-> "tips", spaced |-> TRUE, bare |-> FALSE, cents |-> 2125],
     [text |-> "Bell$14.40", rest |-> "Bell", spaced |-> FALSE, bare |-> FALSE, cents |-> 1440]}

\* What may stand before and after the pair: nothing or a label line.
LinesBefore == {<<>>, <<"Offers 5">>}
LinesAfter == {<<>>, <<"Dash Time 2hr5 min">>}

PairInputs == [before : LinesBefore, first : FirstLines, second : SecondLines, after : LinesAfter]

PairText(p) == JoinWithNewline(p.before \o <<p.first, p.second.text>> \o p.after)

InitPair ==
    /\ fn \in Variants
    /\ input \in PairInputs
    /\ text = PairText(input)
    /\ year = 2025
    /\ pc = "call"
    /\ result = Null

SpecPair == InitPair /\ [][Next]_vars

\* The labels a skip-line begins with, in lower case.
Unit == IF fn = "parseOcrTextSession" THEN "session" ELSE "day"
SkipLabels ==
    {"week", Unit, "date", "total", "active", "start", "end", "deliveri", "dash",
     "doordash pay", "customer tip"}
StartsWith(s, prefix) == Len(s) >= Len(prefix) /\ SubSeq(s, 1, Len(prefix)) = prefix
BeginsWithSkipLabel(line) == \E label \in SkipLabels : StartsWith(ToLowerCase(line), label)
AllDigits(s) == \A i \in 1..Len(s) : Ch(s, i) \in Digit

\* The pair of the input is one the pre-join is about.
IsPair ==
    /\ HasOffers
    /\ Trim(input.first) # ""
    /\ ~BeginsWithSkipLabel(Trim(input.first))
    /\ IndexOf(input.first, "$") = 0

\* The two lines became one logical line: the first, a space, the second.
Merged ==
    JoinLines(Split(text, "\n"), 1, Unit)
        = input.before \o <<Trim(input.first) \o " " \o input.second.text>> \o input.after

\* The store text of the merged line: the first line and what the second holds
\* before the glyph and the amount; a first line ending in " v" before a bare
\* amount loses that "v", which is read as the glyph.
EndsWithGlyph(line) == Len(line) > 2 /\ SubSeq(line, Len(line) - 1, Len(line)) = " v"
PairStore ==
    IF input.second.bare /\ EndsWithGlyph(Trim(input.first))
    THEN Trim(SubSeq(Trim(input.first), 1, Len(Trim(input.first)) - 2))
    ELSE IF input.second.rest = "" THEN Trim(input.first)
    ELSE Trim(input.first) \o " " \o input.second.rest

\* The merged line is extracted as an offer.
PairIsOffer ==
    /\ ~BeginsWithSkipLabel(Trim(input.first) \o " " \o input.second.text)
    /\ input.second.spaced
    /\ Len(PairStore) > 2 /\ ~AllDigits(PairStore)

\* C4 as stated: the two lines are merged and the pair yields exactly one
\* offer, whose store text begins with the first line's text and whose amount
\* is the second line's amount.
C4_PairYieldsOneOffer ==
    IsPair =>
        /\ Merged
        /\ Len(ResultOffers) = 1
        /\ StartsWith(ResultOffers[1].store, Trim(input.first))
        /\ ResultOffers[1].total_earnings = Some(input.second.cents)

\* C4, amended: the two lines are merged and the pair yields at most one offer:
\* exactly one when the merged line does not itself begin with a skip label,
\* the glyph or amount of the second line stands at its start or after white
\* space and the store text is longer than 2 characters and not made of digits
\* only, none otherwise; the store text is the first line's text (less a
\* trailing " v" before a bare amount) followed by what the second line holds
\* before the glyph and the amount, and the amount is the second line's.
C4_PairYieldsAtMostOneOffer ==
    IsPair =>
        /\ Merged
        /\ Len(ResultOffers) <= 1
        /\ Len(ResultOffers) = 1 <=> PairIsOffer
        /\ Len(ResultOffers) = 1 =>
              ResultOffers[1] = [store |-> PairStore, total_earnings |-> Some(input.second.cents)]

\* The example of the claim: one offer of 14.40.
C4_Witness ==
    /\ IsPair
    /\ input.first = "Taco Bell - 031435, Taco Bell"
    /\ input.second.text = "- 031435 v $14.40"
    /\ Merged
    /\ ResultOffers = <<[store |-> "Taco Bell - 031435, Taco Bell - 031435",
                         total_earnings |-> Some(1440)]>>

----------------------------------------------------------------------------
(* Image preprocessing (src/src/lib/imagePreprocessor.ts).

   A Uint8Array of w * h intensities is a sequence of length w * h; the
   element the code writes buf[i] is At(buf, i).  Math.round(n / d) is
   RoundDiv(n, d), the nearest integer, a half going up. *)

At(buf, i) == buf[i + 1]
Max2(a, b) == IF a > b THEN a ELSE b
RoundDiv(n, d) == (2 * n + d) \div (2 * d)
\* A store into a Uint8Array keeps the low eight bits.
ToUint8(v) == v % 256

\* applyBoxBlur, horizontal pass: the window seeded at x = 0 ...
RECURSIVE HorizontalSeed(_, _, _, _, _)
HorizontalSeed(gray, w, y, dx, radius) ==
    IF dx > radius THEN 0
    ELSE At(gray, y * w + Max2(0, Min2(w - 1, dx)))
         + HorizontalSeed(gray, w, y, dx + 1, radius)

\* A slide that lets the pixel one place too far to the left leave the window.
RECURSIVE HorizontalSum_ExitOffByOne(_, _, _, _, _)
HorizontalSum_ExitOffByOne(gray, w, y, x, radius) ==
    IF x = 0 THEN HorizontalSeed(gray, w, y, -radius, radius)
    ELSE HorizontalSum_ExitOffByOne(gray, w, y, x - 1, radius)
         + At(gray, y * w + Min2(w - 1, (x - 1) + radius + 1))
         - At(gray, y * w + Max2(0, (x - 1) - radius - 1))

\* ... and slid to x: `sum` when the loop writes tmp[y * w + x].
RECURSIVE HorizontalSum(_, _, _, _, _)
HorizontalSum(gray, w, y, x, radius) ==
    IF x = 0 THEN HorizontalSeed(gray, w, y, -radius, radius)
    ELSE HorizontalSum(gray, w, y, x - 1, radius)
         + At(gray, y * w + Min2(w - 1, (x - 1) + radius + 1))
         - At(gray, y * w + Max2(0, (x - 1) - radius))

HorizontalPass(gray, w, h, radius) ==
    [i \in 1..(w * h) |->
        ToUint8(RoundDiv(HorizontalSum(gray, w, (i - 1) \div w, (i - 1) % w, radius),
                         2 * radius + 1))]

\* Vertical pass, over tmp.
RECURSIVE VerticalSeed(_, _, _, _, _, _)
VerticalSeed(tmp, w, h, x, dy, radius) ==
    IF dy > radius THEN 0
    ELSE At(tmp, Max2(0, Min2(h - 1, dy)) * w + x)
         + VerticalSeed(tmp, w, h, x, dy + 1, radius)

RECURSIVE VerticalSum(_, _, _, _, _, _)
VerticalSum(tmp, w, h, x, y, radius) ==
    IF y = 0 THEN VerticalSeed(tmp, w, h, x, -radius, radius)
    ELSE VerticalSum(tmp, w, h, x, y - 1, radius)
         + At(tmp, Min2(h - 1, (y - 1) + radius + 1) * w + x)
         - At(tmp, Max2(0, (y - 1) - radius) * w + x)

VerticalPass(tmp, w, h, radius) ==
    [i \in 1..(w * h) |->
        ToUint8(RoundDiv(VerticalSum(tmp, w, h, (i - 1) % w, (i - 1) \div w, radius),
                         2 * radius + 1))]

applyBoxBlur(gray, w, h, radius) ==
    VerticalPass(HorizontalPass(gray, w, h, radius), w, h, radius)

----------------------------------------------------------------------------
(* applyBoxBlur on small images *)

MaxBlurSide == 5
MaxBlurRadius == 2

\* An image is black but for two pixels (which may coincide, or stay black).
BlurLevels == {0, 2}
Marked(n, p1, v1, p2, v2) ==
    [i \in 1..n |-> IF i = p2 THEN v2 ELSE IF i = p1 THEN v1 ELSE 0]
BlurImages(n) ==
    {Marked(n, p1, v1, p2, v2) : p1 \in 1..n, p2 \in 1..n, v1 \in BlurLevels, v2 \in BlurLevels}
BlurInputs ==
    UNION {[w : {w}, h : {h}, radius : 1..MaxBlurRadius, gray : BlurImages(w * h)] :
              w \in 1..MaxBlurSide, h \in 1..MaxBlurSide}

InitBlur ==
    /\ fn = "applyBoxBlur"
    /\ input \in BlurInputs
    /\ text = ""
    /\ year = 0
    /\ pc = "call"
    /\ result = Null

CallApplyBoxBlur ==
    /\ pc = "call"
    /\ fn = "applyBoxBlur"
    /\ result' = applyBoxBlur(input.gray, input.w, input.h, input.radius)
    /\ pc' = "done"
    /\ UNCHANGED <<fn, text, input, year>>

SpecBlur == InitBlur /\ [][CallApplyBoxBlur]_vars

\* The pixels at distance radius or more from every edge.
Interior(w, h, radius) ==
    {p \in (0..(w - 1)) \X (0..(h - 1)) :
        /\ p[1] >= radius /\ p[1] <= w - 1 - radius
        /\ p[2] >= radius /\ p[2] <= h - 1 - radius}

RECURSIVE SumOf(_, _)
SumOf(buf, idxs) ==
    IF idxs = {} THEN 0
    ELSE LET i == CHOOSE j \in idxs : TRUE IN At(buf, i) + SumOf(buf, idxs \ {i})

\* The sum of the input over the (2r+1) x (2r+1) neighbourhood of (x, y).
WindowSum(gray, w, x, y, radius) ==
    SumOf(gray, {yy * w + xx : xx \in (x - radius)..(x + radius), yy \in (y - radius)..(y + radius)})

Abs(n) == IF n < 0 THEN -n ELSE n
WindowArea(radius) == (2 * radius + 1) * (2 * radius + 1)
\* out * area - sum: the distance of the output from the true mean, in units of 1/area.
BlurError(p) ==
    At(result, p[2] * input.w + p[1]) * WindowArea(input.radius)
        - WindowSum(input.gray, input.w, p[1], p[2], input.radius)

\* C11 as stated: at every interior pixel the output is the true mean of the
\* neighbourhood rounded to an integer (it is within one half of the mean), and
\* the output has the dimensions of the input.
C11_BoxBlurIsRoundedMean ==
    (pc = "done" /\ fn = "applyBoxBlur") =>
        /\ Len(result) = input.w * input.h
        /\ \A p \in Interior(input.w, input.h, input.radius) :
              2 * Abs(BlurError(p)) <= WindowArea(input.radius)

\* C11, amended: at every interior pixel the output differs from the true mean
\* of the neighbourhood by less than 1 (the row means are rounded, then their
\* mean is rounded again), and the output has the dimensions of the input.
C11_BoxBlurWithinOne ==
    (pc = "done" /\ fn = "applyBoxBlur") =>
        /\ Len(result) = input.w * input.h
        /\ \A p \in Interior(input.w, input.h, input.radius) :
              Abs(BlurError(p)) < WindowArea(input.radius)

\* A 3 x 3 image blurred with radius 1: the rows of the centre column are
\* rounded to 0, 1, 1 and their mean 2/3 to 1, while the true mean is 4/9.
C11_Witness ==
    /\ pc = "done" /\ fn = "applyBoxBlur"
    /\ input.w = 3 /\ input.h = 3 /\ input.radius = 1
    /\ input.gray = <<0, 0, 0, 0, 0, 2, 0, 0, 2>>
    /\ Interior(3, 3, 1) = {<<1, 1>>}
    /\ WindowSum(input.gray, 3, 1, 1, 1) = 4
    /\ At(result, 4) = 1

----------------------------------------------------------------------------
(* computeClipPoints *)

\* histogram[v]: how many pixels of the buffer have the intensity v.
Histogram(gray, v) == Cardinality({i \in 1..Len(gray) : gray[i] = v})

\* The clip count cut down to a whole number instead of rounded.
ClipCount_Floor(gray, clipPercent) == (clipPercent * Len(gray)) \div 100

\* Math.round((clipPercent / 100) * totalPixels), for a whole percentage.
ClipCount(gray, clipPercent) == RoundDiv(clipPercent * Len(gray), 100)

\* The histogram entries of the intensities a..b added up.
HistogramSum(gray, a, b) == Cardinality({i \in 1..Len(gray) : gray[i] >= a /\ gray[i] <= b})

\* The loop from v = 0 upwards: the first v at which the accumulated count
\* reaches clipCount; low keeps its initial 0 when none does.  The loop is
\* followed sixteen intensities at a time: a block in which the count is not
\* reached only adds to `accumulated`.
RECURSIVE ScanLowWithin(_, _, _, _)
ScanLowWithin(gray, clipCount, v, accumulated) ==
    IF accumulated + Histogram(gray, v) >= clipCount THEN v
    ELSE ScanLowWithin(gray, clipCount, v + 1, accumulated + Histogram(gray, v))

RECURSIVE ScanLow(_, _, _, _)
ScanLow(gray, clipCount, v, accumulated) ==
    IF v >= 256 THEN 0
    ELSE IF accumulated + HistogramSum(gray, v, v + 15) >= clipCount
         THEN ScanLowWithin(gray, clipCount, v, accumulated)
    ELSE ScanLow(gray, clipCount, v + 16,
                 accumulated + HistogramSum(gray, v, v + 15))

\* The loop from v = 255 downwards; high keeps its initial 255 when no v does.
RECURSIVE ScanHighWithin(_, _, _, _)
ScanHighWithin(gray, clipCount, v, accumulated) ==
    IF accumulated + Histogram(gray, v) >= clipCount THEN v
    ELSE ScanHighWithin(gray, clipCount, v - 1, accumulated + Histogram(gray, v))

RECURSIVE ScanHigh(_, _, _, _)
ScanHigh(gray, clipCount, v, accumulated) ==
    IF v < 0 THEN 255
    ELSE IF accumulated + HistogramSum(gray, v - 15, v) >= clipCount
         THEN ScanHighWithin(gray, clipCount, v, accumulated)
    ELSE ScanHigh(gray, clipCount, v - 16,
                  accumulated + HistogramSum(gray, v - 15, v))

\* The clip points returned without the guard against a degenerate range.
ClipPointsOf_Unguarded(low, high) == [low |-> low, high |-> high]

ClipPointsOf(low, high) ==
    IF low >= high THEN [low |-> 0, high |-> 255] ELSE [low |-> low, high |-> high]

computeClipPoints(gray, clipPercent) ==
    ClipPointsOf(ScanLow(gray, ClipCount(gray, clipPercent), 0, 0),
                 ScanHigh(gray, ClipCount(gray, clipPercent), 255, 0))

----------------------------------------------------------------------------
(* computeClipPoints on small buffers *)

MaxClipPixels == 4

ClipLevels == {0, 10, 100, 200, 255}
\* Whole percentages, for which (clipPercent / 100) * totalPixels in floating
\* point rounds as the exact product does (true of every buffer of up to 24
\* pixels).
ClipPercents == {0, 5, 10, 25, 40, 50, 60, 150}
ClipBuffers == UNION {[1..n -> ClipLevels] : n \in 0..MaxClipPixels}
ClipInputs == [gray : ClipBuffers, clipPercent : ClipPercents]

InitClip ==
    /\ fn = "computeClipPoints"
    /\ input \in ClipInputs
    /\ text = ""
    /\ year = 0
    /\ pc = "call"
    /\ result = Null

CallComputeClipPoints ==
    /\ pc = "call"
    /\ fn = "computeClipPoints"
    /\ result' = computeClipPoints(input.gray, input.clipPercent)
    /\ pc' = "done"
    /\ UNCHANGED <<fn, text, input, year>>

SpecClip == InitClip /\ [][CallComputeClipPoints]_vars

\* How many pixels have an intensity in a..b.
CountIn(gray, a, b) == Cardinality({i \in 1..Len(gray) : gray[i] >= a /\ gray[i] <= b})

\* The smallest v with at least `count` pixels in 0..v, and the largest v with
\* at least `count` pixels in v..255 (count is in hundredths of a pixel).
LowestReaching(gray, count100) ==
    CHOOSE v \in 0..255 :
        /\ 100 * CountIn(gray, 0, v) >= count100
        /\ \A u \in 0..(v - 1) : 100 * CountIn(gray, 0, u) < count100
HighestReaching(gray, count100) ==
    CHOOSE v \in 0..255 :
        /\ 100 * CountIn(gray, v, 255) >= count100
        /\ \A u \in (v + 1)..255 : 100 * CountIn(gray, u, 255) < count100

ClipDone == pc = "done" /\ fn = "computeClipPoints"

\* The clip points for a required count: the two percentile intensities, or
\* the full range when they do not leave a range between them.
ExpectedClipPoints(gray, count100) ==
    IF LowestReaching(gray, count100) >= HighestReaching(gray, count100)
    THEN [low |-> 0, high |-> 255]
    ELSE [low |-> LowestReaching(gray, count100), high |-> HighestReaching(gray, count100)]

\* C12 as stated: low is the smallest intensity v with at least p% of the
\* pixels in 0..v and high the largest v with at least p% of the pixels in
\* v..255, unless low >= high, where the full range is returned.
C12_ClipPointsAtPercent ==
    (ClipDone /\ input.gray # <<>> /\ input.clipPercent <= 100) =>
        result = ExpectedClipPoints(input.gray, input.clipPercent * Len(input.gray))

\* The whole number nearest to p% of n, a half going up.
NearestCount(p, n) ==
    CHOOSE k \in 0..n : 100 * k - p * n <= 50 /\ p * n - 100 * k < 50

\* C12, amended: the count to reach is p% of the pixel count rounded to the
\* nearest integer (a half going up), not p% itself.
C12_ClipPointsAtRoundedCount ==
    (ClipDone /\ input.gray # <<>> /\ input.clipPercent <= 100) =>
        result = ExpectedClipPoints(input.gray,
                                    100 * NearestCount(input.clipPercent, Len(input.gray)))

\* Four pixels clipped at 25%: one pixel on each side, the clip points are the
\* darkest and the brightest intensity.
C12_Witness ==
    /\ ClipDone
    /\ input.gray = <<10, 100, 200, 255>>
    /\ input.clipPercent = 25
    /\ NearestCount(25, 4) = 1
    /\ result = [low |-> 10, high |-> 255]

IsFlat(gray) == \A i \in 1..Len(gray) : gray[i] = gray[1]

\* C13: computeClipPoints returns low < high, both in 0..255; for a flat image
\* and whenever the two scans end with low >= high the result is low = 0,
\* high = 255.
C13_ClipRange ==
    ClipDone =>
        /\ result.low \in 0..255 /\ result.high \in 0..255
        /\ result.low < result.high
        /\ IsFlat(input.gray) => result = [low |-> 0, high |-> 255]
        /\ (ScanLow(input.gray, ClipCount(input.gray, input.clipPercent), 0, 0)
              >= ScanHigh(input.gray, ClipCount(input.gray, input.clipPercent), 255, 0))
           => result = [low |-> 0, high |-> 255]

\* A flat image whose scans both stop at its one intensity.
C13_Witness ==
    /\ ClipDone
    /\ input.gray = <<100, 100, 100>>
    /\ input.clipPercent = 50
    /\ ScanLow(input.gray, 2, 0, 0) = 100
    /\ ScanHigh(input.gray, 2, 255, 0) = 100
    /\ result = [low |-> 0, high |-> 255]

----------------------------------------------------------------------------
(* preprocessImage, step 4: contrast stretch *)

\* A range that counts both of its ends.
RangeOf_BothEnds(low, high) == high - low + 1

\* high - low || 1
RangeOf(low, high) == IF high - low = 0 THEN 1 ELSE high - low

\* Math.max(0, Math.min(255, Math.round(((denoised[i] - low) / range) * 255)))
StretchPixel(value, low, range) ==
    Max2(0, Min2(255, RoundDiv((value - low) * 255, range)))

Stretch(denoised, clip) ==
    [i \in 1..Len(denoised) |->
        ToUint8(StretchPixel(denoised[i], clip.low, RangeOf(clip.low, clip.high)))]

ContrastStretch(denoised, clipPercent) ==
    Stretch(denoised, computeClipPoints(denoised, clipPercent))

InitStretch ==
    /\ fn = "contrastStretch"
    /\ input \in ClipInputs
    /\ text = ""
    /\ year = 0
    /\ pc = "call"
    /\ result = <<>>

\* The stage runs on the input ...
StretchOnce ==
    /\ pc = "call"
    /\ fn = "contrastStretch"
    /\ result' = <<ContrastStretch(input.gray, input.clipPercent)>>
    /\ pc' = "stretched"
    /\ UNCHANGED <<fn, text, input, year>>

\* ... and once more on its own output, with the same clip percentage.
StretchAgain ==
    /\ pc = "stretched"
    /\ fn = "contrastStretch"
    /\ result' = Append(result, ContrastStretch(result[1], input.clipPercent))
    /\ pc' = "done"
    /\ UNCHANGED <<fn, text, input, year>>

NextStretch == StretchOnce \/ StretchAgain

SpecStretch == InitStretch /\ [][NextStretch]_vars

\* C14: the contrast-stretch stage run on an image that has been through it
\* with the same clip percentage leaves every pixel unchanged; the clip points
\* of the stretched image are 0 and 255.
C14_StretchIdempotent ==
    (pc = "done" /\ fn = "contrastStretch") =>
        /\ computeClipPoints(result[1], input.clipPercent) = [low |-> 0, high |-> 255]
        /\ result[2] = result[1]

\* An image that the first stretch changes (clip points 10 and 200) and the
\* second leaves alone.
C14_Witness ==
    /\ pc = "done" /\ fn = "contrastStretch"
    /\ input.gray = <<10, 100, 200, 200>>
    /\ input.clipPercent = 25
    /\ computeClipPoints(input.gray, 25) = [low |-> 10, high |-> 200]
    /\ result[1] = <<0, 121, 255, 255>>
    /\ result[2] = result[1]

----------------------------------------------------------------------------
(* computeMedian and preprocessImage, step 5: polarity *)

\* The loop of computeMedian: the first v at which the accumulated count
\* reaches half the pixel count (accumulated >= gray.length / 2), the fallback
\* 128 when none does; followed sixteen intensities at a time, as ScanLow is.
RECURSIVE MedianWithin(_, _, _)
MedianWithin(gray, v, accumulated) ==
    IF 2 * (accumulated + Histogram(gray, v)) >= Len(gray) THEN v
    ELSE MedianWithin(gray, v + 1, accumulated + Histogram(gray, v))

RECURSIVE MedianScan(_, _, _)
MedianScan(gray, v, accumulated) ==
    IF v >= 256 THEN 128
    ELSE IF 2 * (accumulated + HistogramSum(gray, v, v + 15)) >= Len(gray)
         THEN MedianWithin(gray, v, accumulated)
    ELSE MedianScan(gray, v + 16, accumulated + HistogramSum(gray, v, v + 15))

computeMedian(gray) == MedianScan(gray, 0, 0)

\* A polarity test that takes the median 128 itself for dark.
ShouldInvert_AtMost128(opts, stretched) ==
    IF opts.autoInvert THEN computeMedian(stretched) <= 128 ELSE opts.forceInvert

ShouldInvert(opts, stretched) ==
    IF opts.autoInvert THEN computeMedian(stretched) < 128 ELSE opts.forceInvert

Orient(stretched, shouldInvert) ==
    [i \in 1..Len(stretched) |->
        ToUint8(IF shouldInvert THEN 255 - stretched[i] ELSE stretched[i])]

Polarity(stretched, opts) == Orient(stretched, ShouldInvert(opts, stretched))

----------------------------------------------------------------------------
(* The polarity step on small buffers *)

MaxInvertPixels == 4

InvertLevels == {0, 50, 127, 128, 200, 255}
InvertInputs ==
    [stretched : UNION {[1..n -> InvertLevels] : n \in 1..MaxInvertPixels},
     autoInvert : BOOLEAN, forceInvert : BOOLEAN]

InitInvert ==
    /\ fn = "polarity"
    /\ input \in InvertInputs
    /\ text = ""
    /\ year = 0
    /\ pc = "call"
    /\ result = <<>>

StepPolarity ==
    /\ pc = "call"
    /\ fn = "polarity"
    /\ result' = Polarity(input.stretched, input)
    /\ pc' = "done"
    /\ UNCHANGED <<fn, text, input, year>>

SpecInvert == InitInvert /\ [][StepPolarity]_vars

\* The median as the spec defines it: the smallest intensity with at least
\* half of the pixels at or below it.
MedianOf(gray) ==
    CHOOSE m \in 0..255 :
        /\ 2 * CountIn(gray, 0, m) >= Len(gray)
        /\ \A u \in 0..(m - 1) : 2 * CountIn(gray, 0, u) < Len(gray)

Inverted(buf) == [i \in 1..Len(buf) |-> 255 - buf[i]]

\* C15: with autoInvert the stretched buffer is inverted if and only if its
\* median is below 128, whatever forceInvert is; without autoInvert it is
\* inverted if and only if forceInvert is set.  A buffer that is not inverted
\* is left as it is.
C15_PolarityRule ==
    (pc = "done" /\ fn = "polarity") =>
        /\ result \in {input.stretched, Inverted(input.stretched)}
        /\ input.autoInvert =>
              (result = Inverted(input.stretched) <=> MedianOf(input.stretched) < 128)
        /\ ~input.autoInvert =>
              (result = Inverted(input.stretched) <=> input.forceInvert)

\* A buffer of median 50 is inverted under autoInvert though forceInvert is off.
C15_Witness ==
    /\ pc = "done" /\ fn = "polarity"
    /\ input.stretched = <<200, 50, 50>>
    /\ input.autoInvert /\ ~input.forceInvert
    /\ MedianOf(input.stretched) = 50
    /\ result = <<55, 205, 205>>

\* A buffer of median 200 is not inverted under autoInvert though forceInvert is on.
C15_WitnessLight ==
    /\ pc = "done" /\ fn = "polarity"
    /\ input.stretched = <<200, 50, 200>>
    /\ input.autoInvert /\ input.forceInvert
    /\ MedianOf(input.stretched) = 200
    /\ result = input.stretched

----------------------------------------------------------------------------
(* applyGlobalThreshold and applyAdaptiveThreshold *)

\* A threshold is a number num / den (den > 0); the whole number n is Ratio(n, 1).
Ratio(num, den) == [num |-> num, den |-> den]

\* gray[i] >= threshold ? 255 : 0
applyGlobalThreshold(gray, threshold) ==
    [i \in 1..Len(gray) |->
        ToUint8(IF gray[i] * threshold.den >= threshold.num THEN 255 ELSE 0)]

\* The summed-area table, filled in the order of the loop (y, then x); `sat`
\* holds the entries written so far.  The entries are 32-bit integers; the sums
\* of the images modelled here are far below 2^31.
SatEntry(gray, w, sat, x, y) ==
    At(gray, y * w + x)
    + (IF y > 0 THEN At(sat, (y - 1) * w + x) ELSE 0)
    + (IF x > 0 THEN At(sat, y * w + (x - 1)) ELSE 0)
    - (IF y > 0 /\ x > 0 THEN At(sat, (y - 1) * w + (x - 1)) ELSE 0)

RECURSIVE BuildSat(_, _, _)
BuildSat(gray, w, sat) ==
    IF Len(sat) >= Len(gray) THEN sat
    ELSE BuildSat(gray, w, Append(sat, SatEntry(gray, w, sat, Len(sat) % w, Len(sat) \div w)))

\* A window area that leaves out the last column and the last row.
WindowAreaOf_EndsExcluded(x0, y0, x1, y1) == (x1 - x0) * (y1 - y0)

\* (x1 - x0 + 1) * (y1 - y0 + 1)
WindowAreaOf(x0, y0, x1, y1) == (x1 - x0 + 1) * (y1 - y0 + 1)

\* localSum = sumBR - sumTR - sumBL + sumTL
LocalSum(sat, w, x0, y0, x1, y1) ==
    At(sat, y1 * w + x1)
    - (IF y0 > 0 THEN At(sat, (y0 - 1) * w + x1) ELSE 0)
    - (IF x0 > 0 THEN At(sat, y1 * w + (x0 - 1)) ELSE 0)
    + (IF y0 > 0 /\ x0 > 0 THEN At(sat, (y0 - 1) * w + (x0 - 1)) ELSE 0)

\* gray[idx] >= localSum / area + bias, for the window clamped to the image.
AdaptiveWindowPixel(value, sat, w, x0, y0, x1, y1, bias) ==
    IF value * WindowAreaOf(x0, y0, x1, y1)
         >= LocalSum(sat, w, x0, y0, x1, y1) + bias * WindowAreaOf(x0, y0, x1, y1)
    THEN 255 ELSE 0

AdaptivePixel(gray, sat, w, h, x, y, radius, bias) ==
    AdaptiveWindowPixel(At(gray, y * w + x), sat, w,
                        Max2(0, x - radius), Max2(0, y - radius),
                        Min2(w - 1, x + radius), Min2(h - 1, y + radius), bias)

AdaptiveOfSat(gray, sat, w, h, radius, bias) ==
    [i \in 1..Len(gray) |->
        ToUint8(AdaptivePixel(gray, sat, w, h, (i - 1) % w, (i - 1) \div w, radius, bias))]

applyAdaptiveThreshold(gray, w, h, radius, bias) ==
    AdaptiveOfSat(gray, BuildSat(gray, w, <<>>), w, h, radius, bias)

----------------------------------------------------------------------------
(* applyAdaptiveThreshold on small images *)

MaxThresholdSide == 4
MaxAdaptiveRadius == 4

\* An image is mid-grey but for two pixels (which may coincide, or stay grey).
ThresholdLevels == {0, 100, 255}
ThresholdImages(n) ==
    {[i \in 1..n |-> IF i = p2 THEN v2 ELSE IF i = p1 THEN v1 ELSE 100] :
        p1 \in 1..n, p2 \in 1..n, v1 \in ThresholdLevels, v2 \in ThresholdLevels}
Biases == {-10, 0, 10}
AdaptiveInputs ==
    UNION {[w : {w}, h : {h}, radius : 1..MaxAdaptiveRadius, bias : Biases,
            gray : ThresholdImages(w * h)] :
              w \in 1..MaxThresholdSide, h \in 1..MaxThresholdSide}

InitAdaptive ==
    /\ fn = "applyAdaptiveThreshold"
    /\ input \in AdaptiveInputs
    /\ text = ""
    /\ year = 0
    /\ pc = "call"
    /\ result = <<>>

CallApplyAdaptiveThreshold ==
    /\ pc = "call"
    /\ fn = "applyAdaptiveThreshold"
    /\ result' = applyAdaptiveThreshold(input.gray, input.w, input.h, input.radius, input.bias)
    /\ pc' = "done"
    /\ UNCHANGED <<fn, text, input, year>>

SpecAdaptive == InitAdaptive /\ [][CallApplyAdaptiveThreshold]_vars

\* The window covers the whole image at every pixel.
CoversImage == input.radius >= Max2(input.w, input.h) - 1

\* The whole-image mean plus the bias: (sum + bias * n) / n.
MeanPlusBias(gray, bias) ==
    Ratio(SumOf(gray, 0..(Len(gray) - 1)) + bias * Len(gray), Len(gray))

\* C16: with a radius of max(width, height) - 1 or more, applyAdaptiveThreshold
\* with bias b returns what applyGlobalThreshold returns for the threshold
\* (whole-image mean + b).
C16_AdaptiveIsGlobalAtMean ==
    (pc = "done" /\ fn = "applyAdaptiveThreshold" /\ CoversImage) =>
        result = applyGlobalThreshold(input.gray, MeanPlusBias(input.gray, input.bias))

\* A 3 x 2 image of sum 655 thresholded with radius 2 and bias 10: the bright
\* pixel alone reaches the mean plus 10.
C16_Witness ==
    /\ pc = "done" /\ fn = "applyAdaptiveThreshold" /\ CoversImage
    /\ input.w = 3 /\ input.h = 2 /\ input.radius = 2 /\ input.bias = 10
    /\ input.gray = <<100, 0, 100, 100, 255, 100>>
    /\ BuildSat(input.gray, 3, <<>>) = <<100, 100, 200, 200, 455, 655>>
    /\ result = <<0, 0, 0, 0, 255, 0>>

----------------------------------------------------------------------------
(* applyLaplacianSharpen

   The canvas is a sequence of w * h pixels <<r, g, b, a>>.  The strength is
   given in quarters (strength4 = 4 * strength: 18 is 4.5, 20 is 5.0), and the
   kernel weights in sixteenths, so that the arithmetic is exact. *)

\* center = strength
Center16(strength4) == 4 * strength4

\* An arm weight that is not normalised: -(strength / 4).
Arm16_Unnormalised(strength4) == -strength4

\* arm = -((strength - 1) / 4)
Arm16(strength4) == -(strength4 - 4)

Channel(s, w, x, y, c) == At(s, y * w + x)[c]

\* Math.max(0, Math.min(255, Math.round(sharpened)))
SharpenedChannel(s, w, x, y, c, strength4) ==
    Max2(0, Min2(255, RoundDiv(
        Center16(strength4) * Channel(s, w, x, y, c)
        + Arm16(strength4) * Channel(s, w, x, y - 1, c)
        + Arm16(strength4) * Channel(s, w, x, y + 1, c)
        + Arm16(strength4) * Channel(s, w, x - 1, y, c)
        + Arm16(strength4) * Channel(s, w, x + 1, y, c), 16)))

\* The pixels the two copy loops write: the first and last row and column.
IsBorder(w, h, x, y) == x = 0 \/ y = 0 \/ x = w - 1 \/ y = h - 1

SharpenedPixel(s, w, h, x, y, strength4) ==
    IF IsBorder(w, h, x, y) THEN At(s, y * w + x)
    ELSE <<SharpenedChannel(s, w, x, y, 1, strength4),
           SharpenedChannel(s, w, x, y, 2, strength4),
           SharpenedChannel(s, w, x, y, 3, strength4),
           255>>

\* The image data put back on the canvas.
applyLaplacianSharpen(s, w, h, strength4) ==
    [i \in 1..(w * h) |-> SharpenedPixel(s, w, h, (i - 1) % w, (i - 1) \div w, strength4)]

----------------------------------------------------------------------------
(* applyLaplacianSharpen on small images *)

MaxSharpenSide == 4

\* 1.0, 4.5, 5.0 (the default), 6.5 and 8.25.
Strengths == {4, 18, 20, 26, 33}
Grey == <<100, 100, 100, 255>>
Palette == {Grey, <<0, 0, 0, 255>>, <<255, 255, 255, 255>>, <<200, 100, 0, 255>>}
\* An image is grey but for two pixels (which may coincide, or stay grey).
SharpenImages(n) ==
    {[i \in 1..n |-> IF i = p2 THEN v2 ELSE IF i = p1 THEN v1 ELSE Grey] :
        p1 \in 1..n, p2 \in 1..n, v1 \in Palette, v2 \in Palette}
SharpenInputs ==
    UNION {[w : {w}, h : {h}, strength4 : Strengths, pixels : SharpenImages(w * h)] :
              w \in 1..MaxSharpenSide, h \in 1..MaxSharpenSide}

InitSharpen ==
    /\ fn = "applyLaplacianSharpen"
    /\ input \in SharpenInputs
    /\ text = ""
    /\ year = 0
    /\ pc = "call"
    /\ result = <<>>

CallApplyLaplacianSharpen ==
    /\ pc = "call"
    /\ fn = "applyLaplacianSharpen"
    /\ result' = applyLaplacianSharpen(input.pixels, input.w, input.h, input.strength4)
    /\ pc' = "done"
    /\ UNCHANGED <<fn, text, input, year>>

SpecSharpen == InitSharpen /\ [][CallApplyLaplacianSharpen]_vars

\* The four cardinal neighbours of (x, y) have its value in channel c.
FlatAt(s, w, x, y, c) ==
    /\ Channel(s, w, x, y - 1, c) = Channel(s, w, x, y, c)
    /\ Channel(s, w, x, y + 1, c) = Channel(s, w, x, y, c)
    /\ Channel(s, w, x - 1, y, c) = Channel(s, w, x, y, c)
    /\ Channel(s, w, x + 1, y, c) = Channel(s, w, x, y, c)

\* C17: the kernel weights (centre s, four arms -(s - 1)/4) sum to 1; a pixel
\* whose four cardinal neighbours have its value in a channel keeps that value
\* in that channel; a border pixel keeps its source value.
C17_SharpenKeepsFlat ==
    (pc = "done" /\ fn = "applyLaplacianSharpen") =>
        /\ Center16(input.strength4) + 4 * Arm16(input.strength4) = 16
        /\ \A x \in 0..(input.w - 1), y \in 0..(input.h - 1) :
              IF IsBorder(input.w, input.h, x, y)
              THEN At(result, y * input.w + x) = At(input.pixels, y * input.w + x)
              ELSE \A c \in 1..3 :
                      FlatAt(input.pixels, input.w, x, y, c)
                      => Channel(result, input.w, x, y, c) = Channel(input.pixels, input.w, x, y, c)

\* A 4 x 4 image sharpened at 4.5, grey but for two white border pixels: the
\* interior pixel (1, 1) lies among grey neighbours and stays grey, the interior
\* pixel (2, 2) next to a white one changes (450 - 0.875 * 555 is clamped to 0),
\* and the border is copied.
C17_Witness ==
    /\ pc = "done" /\ fn = "applyLaplacianSharpen"
    /\ input.w = 4 /\ input.h = 4 /\ input.strength4 = 18
    /\ input.pixels = [i \in 1..16 |-> IF i \in {1, 12} THEN <<255, 255, 255, 255>> ELSE Grey]
    /\ FlatAt(input.pixels, 4, 1, 1, 1)
    /\ At(result, 5) = Grey
    /\ At(result, 10) = <<0, 0, 0, 255>>
    /\ At(result, 0) = <<255, 255, 255, 255>>
    /\ At(result, 11) = <<255, 255, 255, 255>>

----------------------------------------------------------------------------
(* preprocessImage

   A run is followed step by step.  `input` holds the source image, the
   caller's options and what the platform does during the run; `result` holds
   the locals of the run: the merged options, the canvas, the buffers of the
   steps, the padded canvas, the blob and the error, and `log`, the steps that
   have run.  pc names the step to run next.  scaleFactor is given in tenths
   and sharpenStrength in quarters. *)

DEFAULTS ==
    [scaleFactor10 |-> 25,
     contrastClipPercent |-> 5,
     autoInvert |-> TRUE,
     forceInvert |-> FALSE,
     binarizeMode |-> "global",
     binaryThreshold |-> 160,
     adaptiveRadius |-> 25,
     adaptiveBias |-> -10,
     denoiseRadius |-> 1,
     sharpen |-> TRUE,
     sharpenStrength4 |-> 20,
     paddingPx |-> 12]

\* { ...DEFAULTS, ...options }
MergeOptions(options) ==
    [k \in DOMAIN DEFAULTS |-> IF k \in DOMAIN options THEN options[k] ELSE DEFAULTS[k]]

White == <<255, 255, 255, 255>>

\* gray[i] = Math.round(0.299 * r + 0.587 * g + 0.114 * b)
Grayscale(pixels) ==
    [i \in 1..Len(pixels) |->
        ToUint8(RoundDiv(299 * pixels[i][1] + 587 * pixels[i][2] + 114 * pixels[i][3], 1000))]

Denoise(gray, w, h, opts) ==
    IF opts.denoiseRadius > 0 THEN applyBoxBlur(gray, w, h, opts.denoiseRadius) ELSE gray

Binarize(oriented, w, h, opts) ==
    IF opts.binarizeMode = "global"
    THEN applyGlobalThreshold(oriented, Ratio(opts.binaryThreshold, 1))
    ELSE IF opts.binarizeMode = "adaptive"
    THEN applyAdaptiveThreshold(oriented, w, h, opts.adaptiveRadius, opts.adaptiveBias)
    ELSE oriented

WriteBack(binarized) ==
    [i \in 1..Len(binarized) |-> <<binarized[i], binarized[i], binarized[i], 255>>]

\* The source drawn at (0, 0) of the white canvas.
PaddedPixel_NoOffset(src, w, h, padding, x, y) ==
    IF x < w /\ y < h THEN At(src, y * w + x) ELSE White

\* applyPadding: a white canvas with the source drawn at (padding, padding).
PaddedPixel(src, w, h, padding, x, y) ==
    IF /\ x >= padding /\ x < padding + w
       /\ y >= padding /\ y < padding + h
    THEN At(src, (y - padding) * w + (x - padding))
    ELSE White

applyPadding(src, w, h, padding) ==
    [width |-> w + padding * 2,
     height |-> h + padding * 2,
     pixels |-> [i \in 1..((w + padding * 2) * (h + padding * 2)) |->
                    PaddedPixel(src, w, h, padding,
                                (i - 1) % (w + padding * 2), (i - 1) \div (w + padding * 2))]]

NoRun ==
    [opts |-> Null, log |-> <<>>, scaledW |-> 0, scaledH |-> 0, canvas |-> Null,
     gray |-> Null, denoised |-> Null, stretched |-> Null, oriented |-> Null,
     binarized |-> Null, final |-> Null, blob |-> Null, error |-> Null,
     progress |-> <<>>, urls |-> <<>>, workerInstance |-> Null, created |-> 0,
     recognized |-> <<>>, returned |-> Null]

Frame == UNCHANGED <<fn, text, input, year>>

Throw(message) ==
    /\ result' = [result EXCEPT !.error = Some(message)]
    /\ pc' = "rejected"

CallPreprocessImage ==
    /\ pc = "call"
    /\ fn = "preprocessImage"
    /\ result' = [result EXCEPT !.opts = MergeOptions(input.options)]
    /\ pc' = "decode"
    /\ Frame

\* await createImageBitmap(source)
Decode ==
    /\ pc = "decode"
    /\ IF input.failure = "decode"
       THEN Throw("The source image could not be decoded")
       ELSE /\ pc' = "upscale"
            /\ UNCHANGED result
    /\ Frame

\* Step 1: the canvas of the scaled size, its context, drawImage.
Upscale ==
    /\ pc = "upscale"
    /\ IF input.failure = "context"
       THEN Throw("Could not get 2D canvas context")
       ELSE /\ result' = [result EXCEPT
                  !.scaledW = RoundDiv(input.source.width * result.opts.scaleFactor10, 10),
                  !.scaledH = RoundDiv(input.source.height * result.opts.scaleFactor10, 10),
                  !.canvas = input.drawn,
                  !.log = Append(@, "upscale")]
            /\ pc' = "grayscale"
    /\ Frame

\* Step 2
ToGrayscale ==
    /\ pc = "grayscale"
    /\ result' = [result EXCEPT !.gray = Grayscale(result.canvas),
                                !.log = Append(@, "grayscale")]
    /\ pc' = "denoise"
    /\ Frame

\* The denoise step moved behind the contrast stretch.
DenoiseStep_AfterStretch ==
    /\ pc = "denoise"
    /\ result.opts.denoiseRadius > 0
    /\ result' = [result EXCEPT
          !.stretched = ContrastStretch(result.gray, result.opts.contrastClipPercent),
          !.denoised = Denoise(ContrastStretch(result.gray, result.opts.contrastClipPercent),
                               result.scaledW, result.scaledH, result.opts),
          !.log = @ \o <<"stretch", "denoise">>]
    /\ pc' = "invert"
    /\ Frame

\* Step 3, with a radius above 0 ...
DenoiseStep ==
    /\ pc = "denoise"
    /\ result.opts.denoiseRadius > 0
    /\ result' = [result EXCEPT
          !.denoised = Denoise(result.gray, result.scaledW, result.scaledH, result.opts),
          !.log = Append(@, "denoise")]
    /\ pc' = "stretch"
    /\ Frame

\* ... and with the radius 0: denoised is gray.
DenoiseSkipped ==
    /\ pc = "denoise"
    /\ ~(result.opts.denoiseRadius > 0)
    /\ result' = [result EXCEPT
          !.denoised = Denoise(result.gray, result.scaledW, result.scaledH, result.opts)]
    /\ pc' = "stretch"
    /\ Frame

\* Step 4
StretchStep ==
    /\ pc = "stretch"
    /\ result' = [result EXCEPT
          !.stretched = ContrastStretch(result.denoised, result.opts.contrastClipPercent),
          !.log = Append(@, "stretch")]
    /\ pc' = "invert"
    /\ Frame

\* Step 5
InvertStep ==
    /\ pc = "invert"
    /\ result' = [result EXCEPT !.oriented = Polarity(result.stretched, result.opts),
                                !.log = Append(@, "invert")]
    /\ pc' = "binarize"
    /\ Frame

\* Step 6, global or adaptive ...
BinarizeStep ==
    /\ pc = "binarize"
    /\ result.opts.binarizeMode \in {"global", "adaptive"}
    /\ result' = [result EXCEPT
          !.binarized = Binarize(result.oriented, result.scaledW, result.scaledH, result.opts),
          !.log = Append(@, "binarize")]
    /\ pc' = "writeback"
    /\ Frame

\* ... and with no mode: binarized is oriented.
BinarizeSkipped ==
    /\ pc = "binarize"
    /\ result.opts.binarizeMode \notin {"global", "adaptive"}
    /\ result' = [result EXCEPT
          !.binarized = Binarize(result.oriented, result.scaledW, result.scaledH, result.opts)]
    /\ pc' = "writeback"
    /\ Frame

\* Step 7
WriteBackStep ==
    /\ pc = "writeback"
    /\ result' = [result EXCEPT !.canvas = WriteBack(result.binarized),
                                !.log = Append(@, "writeback")]
    /\ pc' = "sharpen"
    /\ Frame

\* Step 8
SharpenStep ==
    /\ pc = "sharpen"
    /\ result.opts.sharpen
    /\ result' = [result EXCEPT
          !.canvas = applyLaplacianSharpen(result.canvas, result.scaledW, result.scaledH,
                                           result.opts.sharpenStrength4),
          !.log = Append(@, "sharpen")]
    /\ pc' = "pad"
    /\ Frame

SharpenSkipped ==
    /\ pc = "sharpen"
    /\ ~result.opts.sharpen
    /\ pc' = "pad"
    /\ UNCHANGED result
    /\ Frame

\* Step 9
PadStep ==
    /\ pc = "pad"
    /\ IF input.failure = "padContext"
       THEN Throw("Could not get 2D canvas context for padding")
       ELSE /\ result' = [result EXCEPT
                  !.final = applyPadding(result.canvas, result.scaledW, result.scaledH,
                                         result.opts.paddingPx),
                  !.log = Append(@, "pad")]
            /\ pc' = "export"
    /\ Frame

\* finalCanvas.toBlob: the promise resolves with the blob or rejects.
Export ==
    /\ pc = "export"
    /\ IF input.failure = "blob"
       THEN /\ result' = [result EXCEPT !.error = Some("canvas.toBlob returned null"),
                                        !.log = Append(@, "export")]
            /\ pc' = "rejected"
       ELSE /\ result' = [result EXCEPT !.blob = Some(result.final),
                                        !.log = Append(@, "export")]
            /\ pc' = IF fn = "preprocessImage" THEN "done" ELSE "preprocessed"
    /\ Frame

PipelineStep ==
    \/ Decode \/ Upscale \/ ToGrayscale
    \/ DenoiseStep \/ DenoiseSkipped
    \/ StretchStep \/ InvertStep
    \/ BinarizeStep \/ BinarizeSkipped
    \/ WriteBackStep
    \/ SharpenStep \/ SharpenSkipped
    \/ PadStep \/ Export

----------------------------------------------------------------------------
(* preprocessImage on small images *)

MaxSourceSide == 2

Sources == [width : 1..MaxSourceSide, height : 1..MaxSourceSide]
\* 1.0 and 1.5
ScaleFactors == {10, 15}
\* autoInvert and forceInvert
Polarities == {<<TRUE, FALSE>>, <<FALSE, TRUE>>, <<FALSE, FALSE>>}
\* binarizeMode: "null" stands for null.
BinarizeModes == {"global", "adaptive", "null"}
PipelineOptions ==
    {[scaleFactor10 |-> s, denoiseRadius |-> d, binarizeMode |-> m, sharpen |-> sh,
      autoInvert |-> pol[1], forceInvert |-> pol[2], paddingPx |-> p, adaptiveRadius |-> 1] :
        s \in ScaleFactors, d \in {0, 1}, m \in BinarizeModes, sh \in BOOLEAN,
        pol \in Polarities, p \in {0, 1, 2}}
\* The options of the runs in which the platform fails.
FailingRunOptions ==
    {<<>>, [scaleFactor10 |-> 10, denoiseRadius |-> 0, binarizeMode |-> "null", sharpen |-> FALSE]}

\* What drawImage paints on a canvas of n pixels.
Dark == <<30, 30, 30, 255>>
Light == <<220, 220, 220, 255>>
Red == <<255, 0, 0, 255>>
Renderings(n) ==
    {[i \in 1..n |-> Dark],
     [i \in 1..n |-> Light],
     [i \in 1..n |-> IF i % 2 = 1 THEN Light ELSE Dark],
     [i \in 1..n |-> IF i = 1 THEN Red ELSE Dark]}

ScaledPixels(source, options) ==
    RoundDiv(source.width * MergeOptions(options).scaleFactor10, 10)
    * RoundDiv(source.height * MergeOptions(options).scaleFactor10, 10)

Failures == {"decode", "context", "padContext", "blob"}

RunsOf(optionSet, failures) ==
    UNION {[source : {source}, options : {options}, failure : failures,
            drawn : Renderings(ScaledPixels(source, options))] :
              source \in Sources, options \in optionSet}

PipelineInputs ==
    RunsOf(PipelineOptions \cup {<<>>}, {"none"}) \cup RunsOf(FailingRunOptions, Failures)

InitPipeline ==
    /\ fn = "preprocessImage"
    /\ input \in PipelineInputs
    /\ text = ""
    /\ year = 0
    /\ pc = "call"
    /\ result = NoRun

NextPipeline == CallPreprocessImage \/ PipelineStep

SpecPipeline == InitPipeline /\ [][NextPipeline]_vars

StageOrder ==
    <<"upscale", "grayscale", "denoise", "stretch", "invert", "binarize", "writeback",
      "sharpen", "pad", "export">>
Rank(stage) == CHOOSE k \in 1..Len(StageOrder) : StageOrder[k] = stage
Ran(stage) == \E i \in 1..Len(result.log) : result.log[i] = stage

IsGridBuffer(buf) ==
    /\ Len(buf) = result.scaledW * result.scaledH
    /\ \A i \in 1..Len(buf) : buf[i] \in 0..255

\* The padded canvas: the grid grown by paddingPx on every side, the processed
\* image at (paddingPx, paddingPx), white everywhere else.
IsPaddedCanvas(final, canvas, w, h, padding) ==
    /\ final.width = w + 2 * padding
    /\ final.height = h + 2 * padding
    /\ Len(final.pixels) = final.width * final.height
    /\ \A x \in 0..(final.width - 1), y \in 0..(final.height - 1) :
          At(final.pixels, y * final.width + x) =
              IF x - padding \in 0..(w - 1) /\ y - padding \in 0..(h - 1)
              THEN At(canvas, (y - padding) * w + (x - padding))
              ELSE White

\* C19: the grayscale, denoised, stretched, oriented and binarized buffers
\* all have scaledW x scaledH entries in 0..255 (0 or 255 after global or
\* adaptive binarization), the canvas keeps that size, and the grid grows only
\* at padding, to (scaledW + 2 * paddingPx) x (scaledH + 2 * paddingPx) with the
\* processed image at (paddingPx, paddingPx) and white everywhere else.
C19_BufferInvariant ==
    fn = "preprocessImage" =>
        /\ \A buf \in {result.gray, result.denoised, result.stretched, result.oriented,
                       result.binarized} :
              /\ buf # Null => IsGridBuffer(buf)
              /\ Ran("pad") => buf # Null
        /\ (Ran("binarize") /\ result.binarized # Null)
           => \A i \in 1..Len(result.binarized) : result.binarized[i] \in {0, 255}
        /\ Ran("upscale") => Len(result.canvas) = result.scaledW * result.scaledH
        /\ Ran("pad") =>
              IsPaddedCanvas(result.final, result.canvas, result.scaledW, result.scaledH,
                             result.opts.paddingPx)
        /\ result.blob # Null => result.blob = Some(result.final)

\* A completed run on a 3 x 2 grid with paddingPx = 1: a 5 x 4 image with a
\* white frame.
C19_Witness ==
    /\ fn = "preprocessImage" /\ pc = "done"
    /\ result.scaledW = 3 /\ result.scaledH = 2 /\ result.opts.paddingPx = 1
    /\ result.opts.binarizeMode = "global" /\ ~result.opts.sharpen
    /\ input.drawn = [i \in 1..6 |-> IF i = 1 THEN Red ELSE Dark]
    /\ Len(result.gray) = 6 /\ Len(result.binarized) = 6
    /\ result.final.width = 5 /\ result.final.height = 4
    /\ At(result.final.pixels, 0) = White
    /\ At(result.final.pixels, 6) = At(result.canvas, 0)
    /\ At(result.canvas, 0) \in {<<0, 0, 0, 255>>, White}

----------------------------------------------------------------------------
(* recognizeImage (the variant with the preprocessing pass) and getWorker,
   one call.  result.progress holds the calls of onProgress, result.urls the
   object URLs created, result.created the number of createWorker calls,
   result.recognized the sources handed to worker.recognize. *)

Preprocesses == input.preprocess /\ input.imageType # "string"

\* A call that obtains the worker before it preprocesses.
CallRecognizeImage_WorkerFirst ==
    /\ pc = "call"
    /\ fn = "recognizeImage"
    /\ result' = [result EXCEPT
          !.opts = MergeOptions(input.options),
          !.progress = IF Preprocesses THEN Append(@, <<0, "preprocessing">>) ELSE @,
          !.created = IF result.workerInstance = Null THEN @ + 1 ELSE @,
          !.workerInstance = Some("worker")]
    /\ pc' = IF Preprocesses THEN "decode" ELSE "getWorker"
    /\ Frame

\* Up to the await of preprocessImage, or to getWorker when there is no
\* preprocessing pass.
CallRecognizeImage ==
    /\ pc = "call"
    /\ fn = "recognizeImage"
    /\ result' = [result EXCEPT
          !.opts = MergeOptions(input.options),
          !.progress = IF Preprocesses THEN Append(@, <<0, "preprocessing">>) ELSE @]
    /\ pc' = IF Preprocesses THEN "decode" ELSE "getWorker"
    /\ Frame

\* preprocessImage has resolved: the object URL, source = blob, progress 20.
Preprocessed ==
    /\ pc = "preprocessed"
    /\ result' = [result EXCEPT !.urls = Append(@, result.blob[1]),
                                !.progress = Append(@, <<20, "preprocessing">>)]
    /\ pc' = "getWorker"
    /\ Frame

\* await getWorker(onProgress): the instance there is, or createWorker.
GetWorker ==
    /\ pc = "getWorker"
    /\ IF result.workerInstance # Null
       THEN /\ pc' = "recognize"
            /\ UNCHANGED result
       ELSE IF input.failure = "createWorker"
       THEN /\ result' = [result EXCEPT !.created = @ + 1,
                                        !.error = Some("createWorker failed")]
            /\ pc' = "rejected"
       ELSE /\ result' = [result EXCEPT !.created = @ + 1,
                                        !.workerInstance = Some("worker")]
            /\ pc' = "recognize"
    /\ Frame

\* await worker.recognize(source), and the return.
Recognize ==
    /\ pc = "recognize"
    /\ IF input.failure = "recognize"
       THEN /\ result' = [result EXCEPT
                  !.recognized = Append(@, IF Preprocesses THEN result.blob[1] ELSE input.source),
                  !.error = Some("recognize failed")]
            /\ pc' = "rejected"
       ELSE /\ result' = [result EXCEPT
                  !.recognized = Append(@, IF Preprocesses THEN result.blob[1] ELSE input.source),
                  !.returned = Some([preprocessedUrl |->
                                        IF Preprocesses THEN Some(result.blob[1]) ELSE Null])]
            /\ pc' = "done"
    /\ Frame

\* The options of the calls.
RecognizeOptions ==
    {<<>>,
     [scaleFactor10 |-> 10, denoiseRadius |-> 0, binarizeMode |-> "null", sharpen |-> FALSE],
     [scaleFactor10 |-> 15, binarizeMode |-> "adaptive", adaptiveRadius |-> 1, paddingPx |-> 1]}

RecognizeInputs ==
    UNION {[source : {run.source}, options : {run.options}, failure : {run.failure},
            drawn : {run.drawn}, imageType : {"blob", "string"}, preprocess : BOOLEAN,
            workerReady : BOOLEAN] :
              run \in RunsOf(RecognizeOptions, Failures \cup {"none", "createWorker", "recognize"})}

InitRecognize ==
    /\ fn = "recognizeImage"
    /\ input \in RecognizeInputs
    /\ text = ""
    /\ year = 0
    /\ pc = "call"
    /\ result = [NoRun EXCEPT
          !.workerInstance = IF input.workerReady THEN Some("worker") ELSE Null]

NextRecognize ==
    CallRecognizeImage \/ PipelineStep \/ Preprocessed \/ GetWorker \/ Recognize

SpecRecognize == InitRecognize /\ [][NextRecognize]_vars

\* The pipeline fails in this call.
PipelineFails == Preprocesses /\ input.failure \in Failures

\* C20: when the source cannot be decoded, a 2D context is unavailable or the
\* export returns no blob, preprocessImage rejects with an error and produces
\* no image, and recognizeImage rejects before OCR is attempted: no worker is
\* created, nothing is recognised and no object URL is created.
C20_FailsBeforeOcr ==
    (fn = "recognizeImage" /\ PipelineFails) =>
        /\ result.blob = Null
        /\ result.urls = <<>>
        /\ result.created = 0
        /\ result.recognized = <<>>
        /\ result.returned = Null
        /\ pc \notin {"preprocessed", "getWorker", "recognize", "done"}
        /\ pc = "rejected" => result.error # Null
        /\ input.failure = "decode" => pc \in {"call", "decode", "rejected"}
        /\ input.failure = "context" => pc \in {"call", "decode", "upscale", "rejected"}
        /\ input.failure \in {"decode", "context"} => result.log = <<>>
        /\ input.failure = "padContext" => (~Ran("pad") /\ pc # "export")

\* The export returns no blob after every step has run: the call is rejected
\* with nothing handed to the OCR worker.
C20_Witness ==
    /\ fn = "recognizeImage" /\ PipelineFails
    /\ input.failure = "blob"
    /\ ~input.workerReady
    /\ pc = "rejected"
    /\ Ran("pad") /\ result.final # Null
    /\ result.error = Some("canvas.toBlob returned null")
    /\ result.progress = <<<<0, "preprocessing">>>>
    /\ result.created = 0 /\ result.recognized = <<>> /\ result.urls = <<>>

----------------------------------------------------------------------------
(* Several preprocessImage invocations in flight (handleRunAll starts one
   run per image with Promise.all)

   JavaScript runs an invocation without interruption between two awaits, so
   an invocation is three steps: up to the await of createImageBitmap, from
   the decoded bitmap to the call of toBlob, and the callback of toBlob.
   `input`, `pc` hold one entry per invocation.  result.heap holds every
   canvas and buffer allocated, with the invocation that allocated it;
   result.calls[i].refs holds the objects the i-th invocation's locals refer
   to; result.defaults is the module-level DEFAULTS. *)

\* The locals of preprocessImage as functions of the canvas after drawImage.
StretchedOf(gray, w, h, opts) ==
    ContrastStretch(Denoise(gray, w, h, opts), opts.contrastClipPercent)

BinarizedOf(gray, w, h, opts) ==
    Binarize(Polarity(StretchedOf(gray, w, h, opts), opts), w, h, opts)

CanvasOf(gray, w, h, opts) ==
    IF opts.sharpen
    THEN applyLaplacianSharpen(WriteBack(BinarizedOf(gray, w, h, opts)), w, h,
                               opts.sharpenStrength4)
    ELSE WriteBack(BinarizedOf(gray, w, h, opts))

FinalOf(drawn, w, h, opts) ==
    applyPadding(CanvasOf(Grayscale(drawn), w, h, opts), w, h, opts.paddingPx)

ScaledW(run, opts) == RoundDiv(run.source.width * opts.scaleFactor10, 10)
ScaledH(run, opts) == RoundDiv(run.source.height * opts.scaleFactor10, 10)

\* { ...defaults, ...options }
Merge(defaults, options) ==
    [k \in DOMAIN defaults |-> IF k \in DOMAIN options THEN options[k] ELSE defaults[k]]

NoCall == [opts |-> Null, refs |-> <<>>, snapshot |-> Null, blob |-> Null, error |-> Null]

Obj(i, name, data) == [owner |-> i, name |-> name, data |-> data]

\* The objects one invocation allocates between the decode and toBlob, in the
\* order of the code: the canvas (shown with its content after step 8), the
\* buffers (denoised and binarized are new buffers only when their step is
\* enabled) and the padded canvas.
Allocated(i, opts, locals) ==
    <<Obj(i, "canvas", locals.canvas), Obj(i, "gray", locals.gray)>>
    \o (IF opts.denoiseRadius > 0 THEN <<Obj(i, "denoised", locals.denoised)>> ELSE <<>>)
    \o <<Obj(i, "stretched", locals.stretched), Obj(i, "oriented", locals.oriented)>>
    \o (IF opts.binarizeMode \in {"global", "adaptive"}
        THEN <<Obj(i, "binarized", locals.binarized)>>
        ELSE <<>>)
    \o <<Obj(i, "final", locals.final)>>

\* The object the local `name` refers to among those allocated from heap
\* position base + 1 on: denoised is gray and binarized is oriented when the
\* step is disabled.
RefOf(objects, base, name) ==
    LET alias == IF name = "denoised" /\ ~(\E k \in 1..Len(objects) : objects[k].name = name)
                 THEN "gray"
                 ELSE IF name = "binarized" /\ ~(\E k \in 1..Len(objects) : objects[k].name = name)
                 THEN "oriented"
                 ELSE name
    IN  base + (CHOOSE k \in 1..Len(objects) : objects[k].name = alias)

Locals == {"canvas", "gray", "denoised", "stretched", "oriented", "binarized", "final"}

RefsOf(objects, base) ==
    [name \in Locals |-> RefOf(objects, base, name)]

\* Object.assign(DEFAULTS, options): the merged options are written to the
\* module-level object.
StartPreprocess_AssignDefaults(i) ==
    /\ fn = "handleRunAll"
    /\ pc[i] = "call"
    /\ result' = [result EXCEPT
          !.defaults = Merge(result.defaults, input[i].options),
          !.calls[i].opts = Merge(result.defaults, input[i].options)]
    /\ pc' = [pc EXCEPT ![i] = "decode"]
    /\ Frame

\* preprocessImage up to `await createImageBitmap(source)`.
StartPreprocess(i) ==
    /\ fn = "handleRunAll"
    /\ pc[i] = "call"
    /\ result' = [result EXCEPT
          !.calls[i].opts = Merge(result.defaults, input[i].options)]
    /\ pc' = [pc EXCEPT ![i] = "decode"]
    /\ Frame

\* Steps 1 to 9 and the call of toBlob, which copies the bitmap of the padded
\* canvas, with the locals of the code.
RunSteps(i, run, opts, w, h) ==
    \E gray \in {Grayscale(run.drawn)} :
    \E denoised \in {Denoise(gray, w, h, opts)} :
    \E stretched \in {ContrastStretch(denoised, opts.contrastClipPercent)} :
    \E oriented \in {Polarity(stretched, opts)} :
    \E binarized \in {Binarize(oriented, w, h, opts)} :
    \E canvas \in {IF opts.sharpen
                   THEN applyLaplacianSharpen(WriteBack(binarized), w, h, opts.sharpenStrength4)
                   ELSE WriteBack(binarized)} :
    \E final \in {IF run.failure = "padContext"
                  THEN Null
                  ELSE applyPadding(canvas, w, h, opts.paddingPx)} :
    \E objects \in {Allocated(i, opts,
                              [canvas |-> canvas, gray |-> gray, denoised |-> denoised,
                               stretched |-> stretched, oriented |-> oriented,
                               binarized |-> binarized, final |-> final])} :
        /\ result' = [result EXCEPT
              !.heap = @ \o objects,
              !.calls[i].refs = RefsOf(objects, Len(result.heap)),
              !.calls[i].snapshot = IF final = Null THEN Null ELSE Some(final),
              !.calls[i].error =
                  IF final = Null
                  THEN Some("Could not get 2D canvas context for padding")
                  ELSE Null]
        /\ pc' = [pc EXCEPT ![i] = IF final = Null THEN "rejected" ELSE "export"]

\* From the decoded bitmap to the call of toBlob.
ProcessBitmap(i) ==
    /\ fn = "handleRunAll"
    /\ pc[i] = "decode"
    /\ IF input[i].failure = "decode"
       THEN /\ result' = [result EXCEPT
                  !.calls[i].error = Some("The source image could not be decoded")]
            /\ pc' = [pc EXCEPT ![i] = "rejected"]
       ELSE IF input[i].failure = "context"
       THEN /\ result' = [result EXCEPT
                  !.heap = Append(@, Obj(i, "canvas", Null)),
                  !.calls[i].refs = [name \in {"canvas"} |-> Len(result.heap) + 1],
                  !.calls[i].error = Some("Could not get 2D canvas context")]
            /\ pc' = [pc EXCEPT ![i] = "rejected"]
       ELSE RunSteps(i, input[i], result.calls[i].opts,
                     ScaledW(input[i], result.calls[i].opts),
                     ScaledH(input[i], result.calls[i].opts))
    /\ Frame

\* The callback of toBlob.
BlobCallback(i) ==
    /\ fn = "handleRunAll"
    /\ pc[i] = "export"
    /\ IF input[i].failure = "blob"
       THEN /\ result' = [result EXCEPT
                  !.calls[i].error = Some("canvas.toBlob returned null")]
            /\ pc' = [pc EXCEPT ![i] = "rejected"]
       ELSE /\ result' = [result EXCEPT
                  !.calls[i].blob = result.calls[i].snapshot]
            /\ pc' = [pc EXCEPT ![i] = "done"]
    /\ Frame

MaxCalls == 2

\* The runs: two images under two option sets, a run whose export fails and
\* a run whose decode fails.
ConcurrentRuns ==
    {[source |-> [width |-> 2, height |-> 1],
      options |-> [scaleFactor10 |-> 10, paddingPx |-> 1, binarizeMode |-> "null",
                   sharpen |-> FALSE],
      failure |-> "none", drawn |-> <<Light, Dark>>],
     [source |-> [width |-> 1, height |-> 1],
      options |-> [scaleFactor10 |-> 10, paddingPx |-> 0, denoiseRadius |-> 0],
      failure |-> "none", drawn |-> <<Light>>],
     [source |-> [width |-> 1, height |-> 1],
      options |-> [scaleFactor10 |-> 15, paddingPx |-> 0, binarizeMode |-> "adaptive",
                   adaptiveRadius |-> 1],
      failure |-> "blob", drawn |-> <<Red, Dark, Dark, Dark>>],
     [source |-> [width |-> 1, height |-> 1],
      options |-> <<>>,
      failure |-> "decode", drawn |-> <<>>]}

InitConcurrent ==
    /\ fn = "handleRunAll"
    /\ input \in [1..MaxCalls -> ConcurrentRuns]
    /\ text = ""
    /\ year = 0
    /\ pc = [i \in 1..MaxCalls |-> "call"]
    /\ result = [defaults |-> DEFAULTS, heap |-> <<>>,
                 calls |-> [i \in 1..MaxCalls |-> NoCall]]

NextConcurrent ==
    \E i \in 1..MaxCalls : StartPreprocess(i) \/ ProcessBitmap(i) \/ BlobCallback(i)

SpecConcurrent == InitConcurrent /\ [][NextConcurrent]_vars

\* What the invocation returns when it runs alone.
SoloOutput(run) ==
    FinalOf(run.drawn, ScaledW(run, MergeOptions(run.options)),
            ScaledH(run, MergeOptions(run.options)), MergeOptions(run.options))

RefsOfCall(i) == {result.calls[i].refs[name] : name \in DOMAIN result.calls[i].refs}

\* C21: in every interleaving of the invocations at their awaits, every buffer
\* and canvas an invocation's locals refer to was allocated by that
\* invocation, no two invocations refer to the same object, the module-level
\* DEFAULTS is never written, and an invocation that completes returns what it
\* returns when run alone on the same image and options.
C21_ConcurrentRunsAreIndependent ==
    fn = "handleRunAll" =>
        /\ result.defaults = DEFAULTS
        /\ \A i \in 1..MaxCalls :
              /\ \A id \in RefsOfCall(i) :
                    id \in 1..Len(result.heap) /\ result.heap[id].owner = i
              /\ \A j \in 1..MaxCalls : i # j => RefsOfCall(i) \cap RefsOfCall(j) = {}
              /\ result.calls[i].opts # Null => result.calls[i].opts = MergeOptions(input[i].options)
              /\ pc[i] = "done" => result.calls[i].blob = Some(SoloOutput(input[i]))
              /\ pc[i] = "done" <=> result.calls[i].blob # Null
              /\ pc[i] = "rejected" <=> result.calls[i].error # Null

\* Two invocations with different options on different images in flight at
\* once: the first one's buffers were allocated first and it still awaits its
\* blob when the second one, decoded later, has returned its own image.
C21_Witness ==
    /\ fn = "handleRunAll"
    /\ pc[1] = "export" /\ pc[2] = "done"
    /\ input[1].options # input[2].options
    /\ input[1].source = [width |-> 2, height |-> 1]
    /\ input[2].source = [width |-> 1, height |-> 1]
    /\ result.heap[1].owner = 1
    /\ result.calls[1].refs.canvas = 1
    /\ result.calls[1].refs.binarized = result.calls[1].refs.oriented
    /\ result.calls[2].refs.gray = result.calls[2].refs.denoised
    /\ result.calls[2].refs.canvas > result.calls[1].refs.final
    /\ result.calls[1].snapshot = Some(SoloOutput(input[1]))
    /\ result.calls[2].blob = Some(SoloOutput(input[2]))
    /\ result.calls[2].blob[1].width = 1
    /\ result.calls[1].snapshot[1].width = 4

----------------------------------------------------------------------------
(* recognizeImage, getWorker and terminateOcr with several calls in flight

   The module-level workerInstance and initPromise are shared by all calls.
   result.promises holds the promises of the initialisations started (one
   createWorker call each), result.workers the workers created, with the call
   whose onProgress the logger of createWorker closes over and whether
   terminate() has been invoked on them.  result.calls[i] holds the i-th
   recognizeImage call's locals, result.recognized the invocations of
   worker.recognize, result.progress the "recognizing text" events delivered
   (the call whose image is recognised, the call whose callback receives the
   event).  pc.recognize[i] and pc.terminate are the positions of the calls.
   input.createFails[k] tells whether the k-th createWorker call fails. *)

MaxOcrCalls == 3

NoOcrCall == [awaited |-> Null, joinedSettled |-> FALSE, worker |-> Null]

\* worker.recognize(source) is invoked by call i on worker w.
InvokeRecognize(i, w) ==
    [call |-> i, worker |-> w, terminated |-> result.workers[w].terminated]

\* recognizeImage up to `await preprocessImage(image, preprocessOptions)`.
StartRecognize(i) ==
    /\ fn = "recognizeImages"
    /\ pc.recognize[i] = "call"
    /\ pc' = [pc EXCEPT !.recognize[i] = "preprocess"]
    /\ UNCHANGED result
    /\ Frame

\* getWorker without the initPromise check: every call that finds no worker
\* starts an initialisation.
AcquireWorker_NoInitPromise(i) ==
    /\ fn = "recognizeImages"
    /\ pc.recognize[i] = "preprocess"
    /\ IF result.workerInstance # Null
       THEN /\ result' = [result EXCEPT
                  !.calls[i].worker = result.workerInstance,
                  !.recognized = @ \cup {InvokeRecognize(i, result.workerInstance[1])}]
            /\ pc' = [pc EXCEPT !.recognize[i] = "recognizing"]
       ELSE /\ result' = [result EXCEPT
                  !.promises = Append(@, [state |-> "pending", value |-> 0, creator |-> i]),
                  !.initPromise = Some(Len(result.promises) + 1),
                  !.calls[i].awaited = Some(Len(result.promises) + 1)]
            /\ pc' = [pc EXCEPT !.recognize[i] = "awaitInit"]
    /\ Frame

\* The preprocessing has resolved; `await getWorker(onProgress)`: the worker
\* there is (and worker.recognize is invoked), the initialisation in flight
\* (a rejected one rejects the call at once), or a new initialisation, whose
\* createWorker gets a logger over onProgress.
AcquireWorker(i) ==
    /\ fn = "recognizeImages"
    /\ pc.recognize[i] = "preprocess"
    /\ IF result.workerInstance # Null
       THEN /\ result' = [result EXCEPT
                  !.calls[i].worker = result.workerInstance,
                  !.recognized = @ \cup {InvokeRecognize(i, result.workerInstance[1])}]
            /\ pc' = [pc EXCEPT !.recognize[i] = "recognizing"]
       ELSE IF result.initPromise # Null
       THEN /\ result' = [result EXCEPT
                  !.calls[i].awaited = result.initPromise,
                  !.calls[i].joinedSettled =
                      result.promises[result.initPromise[1]].state # "pending"]
            /\ pc' = [pc EXCEPT !.recognize[i] =
                         IF result.promises[result.initPromise[1]].state = "pending"
                         THEN "awaitInit"
                         ELSE "rejected"]
       ELSE /\ result' = [result EXCEPT
                  !.promises = Append(@, [state |-> "pending", value |-> 0, creator |-> i]),
                  !.initPromise = Some(Len(result.promises) + 1),
                  !.calls[i].awaited = Some(Len(result.promises) + 1)]
            /\ pc' = [pc EXCEPT !.recognize[i] = "awaitInit"]
    /\ Frame

\* The calls that await the initialisation p.
Awaiting(p) ==
    {i \in 1..MaxOcrCalls : pc.recognize[i] = "awaitInit" /\ result.calls[i].awaited = Some(p)}

\* `await createWorker(...)` settles in the initialisation p: the worker is
\* stored and initPromise cleared, or the promise is rejected.  The calls that
\* await the promise resume in the same turn of the event loop: each invokes
\* worker.recognize on the new worker, or rejects.
CreateWorkerSettles(p) ==
    /\ fn = "recognizeImages"
    /\ p \in 1..Len(result.promises)
    /\ result.promises[p].state = "pending"
    /\ IF input.createFails[p]
       THEN /\ result' = [result EXCEPT !.promises[p].state = "rejected"]
            /\ pc' = [pc EXCEPT !.recognize =
                         [i \in 1..MaxOcrCalls |->
                             IF i \in Awaiting(p) THEN "rejected" ELSE pc.recognize[i]]]
       ELSE /\ result' = [result EXCEPT
                  !.workers = Append(@, [logger |-> result.promises[p].creator,
                                         terminated |-> FALSE]),
                  !.workerInstance = Some(Len(result.workers) + 1),
                  !.initPromise = Null,
                  !.promises[p] = [@ EXCEPT !.state = "fulfilled",
                                            !.value = Len(result.workers) + 1],
                  !.calls = [i \in 1..MaxOcrCalls |->
                                IF i \in Awaiting(p)
                                THEN [result.calls[i] EXCEPT
                                         !.worker = Some(Len(result.workers) + 1)]
                                ELSE result.calls[i]],
                  !.recognized = @ \cup
                      {[call |-> i, worker |-> Len(result.workers) + 1, terminated |-> FALSE] :
                          i \in Awaiting(p)}]
            /\ pc' = [pc EXCEPT !.recognize =
                         [i \in 1..MaxOcrCalls |->
                             IF i \in Awaiting(p) THEN "recognizing" ELSE pc.recognize[i]]]
    /\ Frame

\* The recognition runs: the worker reports its progress to the logger it was
\* created with and the call returns.  On a terminated worker the job is
\* rejected or never settles.
FinishRecognize(i) ==
    /\ fn = "recognizeImages"
    /\ pc.recognize[i] = "recognizing"
    /\ IF result.workers[result.calls[i].worker[1]].terminated
       THEN /\ \E outcome \in {"rejected", "hung"} :
                  pc' = [pc EXCEPT !.recognize[i] = outcome]
            /\ UNCHANGED result
       ELSE /\ result' = [result EXCEPT
                  !.progress = @ \cup
                      {[image |-> i,
                        callback |-> result.workers[result.calls[i].worker[1]].logger]}]
            /\ pc' = [pc EXCEPT !.recognize[i] = "done"]
    /\ Frame

\* terminateOcr up to `await workerInstance.terminate()`.
CallTerminateOcr ==
    /\ fn = "recognizeImages"
    /\ pc.terminate = "idle"
    /\ input.terminates
    /\ IF result.workerInstance # Null
       THEN /\ result' = [result EXCEPT
                  !.workers[result.workerInstance[1]].terminated = TRUE,
                  !.pendingAtTerminate = result.initPromise]
            /\ pc' = [pc EXCEPT !.terminate = "terminating"]
       ELSE /\ result' = [result EXCEPT !.pendingAtTerminate = result.initPromise]
            /\ pc' = [pc EXCEPT !.terminate = "done"]
    /\ Frame

\* terminate() has resolved: workerInstance = null.
TerminateResolves ==
    /\ fn = "recognizeImages"
    /\ pc.terminate = "terminating"
    /\ result' = [result EXCEPT !.workerInstance = Null]
    /\ pc' = [pc EXCEPT !.terminate = "done"]
    /\ Frame

OcrInputs == [createFails : [1..MaxOcrCalls -> BOOLEAN], terminates : BOOLEAN]

InitOcr ==
    /\ fn = "recognizeImages"
    /\ input \in OcrInputs
    /\ text = ""
    /\ year = 0
    /\ pc = [recognize |-> [i \in 1..MaxOcrCalls |-> "call"], terminate |-> "idle"]
    /\ result = [workerInstance |-> Null, initPromise |-> Null, promises |-> <<>>,
                 workers |-> <<>>, calls |-> [i \in 1..MaxOcrCalls |-> NoOcrCall],
                 recognized |-> {}, progress |-> {}, pendingAtTerminate |-> Null]

NextOcr ==
    \/ \E i \in 1..MaxOcrCalls :
          StartRecognize(i) \/ AcquireWorker(i) \/ FinishRecognize(i)
    \/ \E p \in 1..MaxOcrCalls : CreateWorkerSettles(p)
    \/ CallTerminateOcr
    \/ TerminateResolves

SpecOcr == InitOcr /\ [][NextOcr]_vars

InitFailed == \E p \in 1..Len(result.promises) : result.promises[p].state = "rejected"

\* C22: as long as no initialisation has failed and terminateOcr has not been
\* called, createWorker has been invoked at most once, whatever the number of
\* recognizeImage calls and however they overlap, and every call that has a
\* worker has the one worker.
C22_WorkerCreatedOnce ==
    (fn = "recognizeImages" /\ ~InitFailed /\ pc.terminate = "idle") =>
        /\ Len(result.promises) <= 1
        /\ Len(result.workers) <= 1
        /\ \A i \in 1..MaxOcrCalls :
              /\ result.calls[i].worker \in {Null, Some(1)}
              /\ pc.recognize[i] \in {"recognizing", "done"} => result.calls[i].worker = Some(1)
        /\ \A event \in result.recognized : event.worker = 1
        /\ result.workerInstance # Null => result.workerInstance = Some(1)

\* Three calls, all done: the first started the initialisation, the second
\* called getWorker while it was in flight and awaited the same promise, the
\* third found the worker; createWorker was called once.
C22_Witness ==
    /\ fn = "recognizeImages" /\ ~InitFailed /\ pc.terminate = "idle"
    /\ \A i \in 1..3 : pc.recognize[i] = "done" /\ result.calls[i].worker = Some(1)
    /\ result.promises[1].creator = 1
    /\ result.calls[1].awaited = Some(1)
    /\ result.calls[2].awaited = Some(1) /\ ~result.calls[2].joinedSettled
    /\ result.calls[3].awaited = Null
    /\ Len(result.promises) = 1 /\ Len(result.workers) = 1
    /\ Cardinality(result.recognized) = 3

\* C23: every "recognizing text" progress event emitted while a call's image
\* is recognised is delivered to the callback that call passed, never to the
\* callback of another call (in NewEntry the callback of a call sets the
\* progress of that call's entry only, so no entry's progress is changed by
\* another image's recognition).
C23_ProgressToOwnCallback ==
    fn = "recognizeImages" =>
        \A delivery \in result.progress : delivery.callback = delivery.image

\* C26: a failed initialisation is not kept: initPromise never holds a
\* rejected promise, and no call is handed an initialisation that had already
\* failed when the call asked for the worker, so a call made after the failure
\* initialises again.
C26_FailedInitNotCached ==
    fn = "recognizeImages" =>
        /\ result.initPromise # Null =>
              result.promises[result.initPromise[1]].state = "pending"
        /\ \A i \in 1..MaxOcrCalls : ~result.calls[i].joinedSettled

\* C30: worker.recognize is never invoked on a worker on which terminate()
\* has been invoked, and once terminateOcr has completed, the worker of an
\* initialisation that was in flight when terminateOcr was called is not left
\* live.
C30_NoUseOfTerminatedWorker ==
    fn = "recognizeImages" =>
        /\ \A event \in result.recognized : ~event.terminated
        /\ (/\ pc.terminate = "done"
            /\ result.pendingAtTerminate # Null
            /\ result.promises[result.pendingAtTerminate[1]].state = "fulfilled")
           => result.workers[result.promises[result.pendingAtTerminate[1]].value].terminated

----------------------------------------------------------------------------
(* detectEntryType on texts in which a word that is no month name precedes
   "number-dash-number" *)

MaxCompactLines == 2

\* Compact ranges after a month name, abbreviated or full.
MonthRangeLines == {"Feb 9-15", "March 2-8"}
\* An order number, a zone, a store number.
OtherRangeLines == {"Order 12-34", "Zone 3-5", "Store 7 - 11"}
LabelLines == {"Start Time 10:27 AM", "End Time 12:12 PM"}

CompactSeqs ==
    UNION {[1..n -> MonthRangeLines \cup OtherRangeLines \cup LabelLines \cup NoSignalLines] :
              n \in 0..MaxCompactLines}

InitCompact ==
    /\ fn = "detectEntryType"
    /\ input \in CompactSeqs
    /\ text = JoinWithNewline(input)
    /\ year = 2025
    /\ pc = "call"
    /\ result = Null

SpecCompact == InitCompact /\ [][CallDetectEntryType]_vars

HasMonthRange == \E i \in 1..Len(input) : input[i] \in MonthRangeLines
HasOtherRange == \E i \in 1..Len(input) : input[i] \in OtherRangeLines
HasLabel == \E i \in 1..Len(input) : input[i] \in LabelLines

\* C24: the compact same-month rule gives week only for a text with a month
\* name before the two day numbers; a text whose only "word number-dash-number"
\* has a word that is no month name, with no other week signal and with a
\* "Start Time" or "End Time" label, is classified day.
C24_CompactRangeNeedsMonth ==
    (pc = "done" /\ fn = "detectEntryType") =>
        /\ result = "week" => HasMonthRange
        /\ (HasOtherRange /\ ~HasMonthRange /\ HasLabel) => result = "day"

----------------------------------------------------------------------------
(* applyAdaptiveThreshold on an image whose intensities sum to more than
   2^31 - 1

   The image is a light page: SatWidth pixels wide, WhiteRows rows of 255
   followed by the tail rows, which are 255 but for the dark columns
   input.dark.  WhiteRows is the largest number of white rows whose sum still
   fits 32 bits, so the table of these rows holds the exact prefix sums
   255 * (x + 1) * (y + 1); that state of the first loop is the initial state.
   The loop is followed entry by entry over the tail rows (result.sat, in loop
   order), storing into the Int32Array; the second loop is followed on the
   pixels of the tail rows.

   The numbers the code computes with are doubles, exact for the integers met
   here; a number n is held as <<hi, lo>> with n = hi * 65536 + lo and
   0 <= lo < 65536. *)

MaxInt32 == 2147483647

Wide(n) == <<n \div 65536, n % 65536>>
WideNorm(hi, lo) == <<hi + (lo \div 65536), lo % 65536>>
WideAdd(a, b) == WideNorm(a[1] + b[1], a[2] + b[2])
WideSub(a, b) == WideNorm(a[1] - b[1], a[2] - b[2])
\* a * k for a whole number k of at most 15 bits
WideScale(a, k) == WideNorm(a[1] * k, a[2] * k)
WideLeq(a, b) == a[1] < b[1] \/ (a[1] = b[1] /\ a[2] <= b[2])

\* The store into an Int32Array: the number modulo 2^32, as a signed integer.
ToInt32(a) == ((((a[1] + 32768) % 65536) - 32768) * 65536) + a[2]

\* sat[idx] = gray[idx] + above + left - aboveLeft
SatStore(gray, above, left, aboveLeft) ==
    ToInt32(WideSub(WideAdd(WideAdd(Wide(gray), Wide(above)), Wide(left)), Wide(aboveLeft)))

SatWidth == 2925
\* The white rows above the tail: their sum is at most 2^31 - 1.
WhiteRows == MaxInt32 \div (255 * SatWidth)
MaxTailRows == 1

SatHeight == WhiteRows + input.tailRows

GrayAt(x, y) == IF y >= WhiteRows /\ x \in input.dark THEN 0 ELSE 255

\* sat[y * w + x], read from the rows built before the initial state or from
\* the entries written since.
TableAt(sat, x, y) ==
    IF y < WhiteRows
    THEN 255 * (x + 1) * (y + 1)
    ELSE At(sat, (y - WhiteRows) * SatWidth + x)

\* The entry the loop writes at (x, y), as a number before the store.
SatSum(sat, x, y) ==
    WideSub(WideAdd(WideAdd(Wide(GrayAt(x, y)),
                            Wide(IF y > 0 THEN TableAt(sat, x, y - 1) ELSE 0)),
                    Wide(IF x > 0 THEN TableAt(sat, x - 1, y) ELSE 0)),
            Wide(IF y > 0 /\ x > 0 THEN TableAt(sat, x - 1, y - 1) ELSE 0))

\* One iteration of the first loop.
SatStep ==
    /\ fn = "integralImage"
    /\ pc = "sat"
    /\ result' = [result EXCEPT
          !.sat = Append(@, SatStore(GrayAt(result.x, result.y),
                                     IF result.y > 0
                                     THEN TableAt(result.sat, result.x, result.y - 1) ELSE 0,
                                     IF result.x > 0
                                     THEN TableAt(result.sat, result.x - 1, result.y) ELSE 0,
                                     IF result.y > 0 /\ result.x > 0
                                     THEN TableAt(result.sat, result.x - 1, result.y - 1)
                                     ELSE 0)),
          !.wrapped = @ \/ ~WideLeq(SatSum(result.sat, result.x, result.y), Wide(MaxInt32)),
          !.x = IF result.x + 1 < SatWidth THEN result.x + 1 ELSE 0,
          !.y = IF result.x + 1 < SatWidth THEN result.y ELSE result.y + 1]
    /\ pc' = IF result.x + 1 < SatWidth \/ result.y + 1 < SatHeight THEN "sat" ELSE "threshold"
    /\ Frame

\* localSum = sumBR - sumTR - sumBL + sumTL
LocalSum32(sat, x0, y0, x1, y1) ==
    WideAdd(WideSub(WideSub(Wide(TableAt(sat, x1, y1)),
                            Wide(IF y0 > 0 THEN TableAt(sat, x1, y0 - 1) ELSE 0)),
                    Wide(IF x0 > 0 THEN TableAt(sat, x0 - 1, y1) ELSE 0)),
            Wide(IF y0 > 0 /\ x0 > 0 THEN TableAt(sat, x0 - 1, y0 - 1) ELSE 0))

\* gray[idx] >= localSum / area + bias
AdaptiveWindowPixel32(value, sat, x0, y0, x1, y1, bias) ==
    IF WideLeq(LocalSum32(sat, x0, y0, x1, y1),
               WideScale(Wide(WindowAreaOf(x0, y0, x1, y1)), value - bias))
    THEN 255 ELSE 0

AdaptivePixel32(sat, h, x, y, radius, bias) ==
    AdaptiveWindowPixel32(GrayAt(x, y), sat,
                          Max2(0, x - radius), Max2(0, y - radius),
                          Min2(SatWidth - 1, x + radius), Min2(h - 1, y + radius), bias)

\* 0, 1, the default 25, and a radius that covers the image.
SatRadii == {0, 1, 25, SatWidth}

\* The second loop on the pixels of the tail rows.
ThresholdTail ==
    /\ fn = "integralImage"
    /\ pc = "threshold"
    /\ \E radius \in SatRadii :
          result' = [result EXCEPT
             !.radius = radius,
             !.out = [i \in 1..(SatWidth * input.tailRows) |->
                         AdaptivePixel32(result.sat, SatHeight, (i - 1) % SatWidth,
                                         WhiteRows + ((i - 1) \div SatWidth), radius,
                                         input.bias)]]
    /\ pc' = "done"
    /\ Frame

SatInputs ==
    [tailRows : 1..MaxTailRows,
     dark : {{}, {SatWidth - 1}, {SatWidth - 3, SatWidth - 2}},
     bias : {-10}]

InitSat ==
    /\ fn = "integralImage"
    /\ input \in SatInputs
    /\ text = ""
    /\ year = 0
    /\ pc = "sat"
    /\ result = [x |-> 0, y |-> WhiteRows, sat |-> <<>>, wrapped |-> FALSE,
                 radius |-> 0, out |-> <<>>]

NextSat == SatStep \/ ThresholdTail

SpecSat == InitSat /\ [][NextSat]_vars

\* The pixels looked at: the ends and the middle of the last row.
Probes == {0, SatWidth \div 2, SatWidth - 2, SatWidth - 1}

LightIn(x0, x1) == (x1 - x0 + 1) - Cardinality(input.dark \cap (x0..x1))

\* The sum of the input pixels in the window x0..x1, y0..y1.
ExactWindowSum(x0, y0, x1, y1) ==
    WideScale(Wide((Max2(0, Min2(y1, WhiteRows - 1) - y0 + 1) * (x1 - x0 + 1))
                   + (Max2(0, y1 - Max2(y0, WhiteRows) + 1) * LightIn(x0, x1))),
              255)

ProbeSumIsExact(x, y, radius) ==
    LocalSum32(result.sat, Max2(0, x - radius), Max2(0, y - radius),
               Min2(SatWidth - 1, x + radius), Min2(SatHeight - 1, y + radius))
    = ExactWindowSum(Max2(0, x - radius), Max2(0, y - radius),
                     Min2(SatWidth - 1, x + radius), Min2(SatHeight - 1, y + radius))

ProbeAreaIsCount(x, y, radius) ==
    WindowAreaOf(Max2(0, x - radius), Max2(0, y - radius),
                 Min2(SatWidth - 1, x + radius), Min2(SatHeight - 1, y + radius))
    = Cardinality((Max2(0, x - radius)..Min2(SatWidth - 1, x + radius))
                  \X (Max2(0, y - radius)..Min2(SatHeight - 1, y + radius)))

\* C25: no entry of the 32-bit table overflows or wraps, for every image size,
\* those whose intensities sum to more than 2^31 - 1 included; the window sum
\* obtained from the four lookups is the exact sum of the input pixels in the
\* clamped window, and the divisor is the number of pixels of that window.
C25_SatIsExact ==
    fn = "integralImage" =>
        /\ ~result.wrapped
        /\ pc = "done" =>
              \A x \in Probes :
                 /\ ProbeSumIsExact(x, SatHeight - 1, result.radius)
                 /\ result.radius <= 25 => ProbeAreaIsCount(x, SatHeight - 1, result.radius)

\* The sum of the image.
ExactTotal == ExactWindowSum(0, 0, SatWidth - 1, SatHeight - 1)

\* C16 on the large image: with a radius that covers the image the output is
\* the global threshold at the whole-image mean plus the bias, that is, 255
\* where gray * n >= sum + bias * n.
C16_LargeImageIsGlobalAtMean ==
    (fn = "integralImage" /\ pc = "done"
        /\ result.radius >= Max2(SatWidth, SatHeight) - 1) =>
        \A i \in 1..Len(result.out) :
            result.out[i] =
                IF WideLeq(ExactTotal,
                           WideScale(Wide(SatWidth * SatHeight),
                                     GrayAt((i - 1) % SatWidth, SatHeight - 1) - input.bias))
                THEN 255 ELSE 0

----------------------------------------------------------------------------
(* saveDayWithOffers

   The database is the rows of the days table (their ids) and of the offers
   table; each database.execute is awaited, so each insert is a step of its
   own.  input.failAt names the insert whose execute rejects: 0 none, 1 the
   insert of the day, k + 1 the insert of offer k. *)

MaxOffers == 3
SavedStores == {"Target", "CVS"}

OfferLists == UNION {[1..n -> SavedStores] : n \in 0..MaxOffers}

SaveInputs ==
    {s \in [offers : OfferLists, failAt : 0..(MaxOffers + 1), existing : 0..1] :
        s.failAt <= Len(s.offers) + 1}

InitSave ==
    /\ fn = "saveDayWithOffers"
    /\ input \in SaveInputs
    /\ text = ""
    /\ year = 0
    /\ pc = "call"
    /\ result = [days |-> [i \in 1..input.existing |-> i], offers |-> <<>>,
                 dayId |-> Null, next |-> 1]

\* saveDayWithOffers calls DayService.create, which issues the INSERT.
CallSaveDayWithOffers ==
    /\ fn = "saveDayWithOffers"
    /\ pc = "call"
    /\ pc' = "day"
    /\ UNCHANGED result
    /\ Frame

\* The INSERT INTO days settles: dayId = result.lastInsertId, or the rejection
\* propagates out of saveDayWithOffers.
DayInsertSettles ==
    /\ fn = "saveDayWithOffers"
    /\ pc = "day"
    /\ IF input.failAt = 1
       THEN /\ pc' = "rejected"
            /\ UNCHANGED result
       ELSE /\ result' = [result EXCEPT !.days = Append(@, Len(@) + 1),
                                        !.dayId = Some(Len(result.days) + 1)]
            /\ pc' = IF Len(input.offers) > 0 THEN "offers" ELSE "resolved"
    /\ Frame

\* One iteration of the loop of bulkCreate: the INSERT INTO offers settles.
OfferInsertSettles ==
    /\ fn = "saveDayWithOffers"
    /\ pc = "offers"
    /\ IF input.failAt = result.next + 1
       THEN /\ pc' = "rejected"
            /\ UNCHANGED result
       ELSE /\ result' = [result EXCEPT
                  !.offers = Append(@, [day_id |-> result.dayId[1],
                                        store |-> input.offers[result.next]]),
                  !.next = @ + 1]
            /\ pc' = IF result.next < Len(input.offers) THEN "offers" ELSE "resolved"
    /\ Frame

NextSave == CallSaveDayWithOffers \/ DayInsertSettles \/ OfferInsertSettles

SpecSave == InitSave /\ [][NextSave]_vars

AllStored ==
    /\ result.dayId # Null
    /\ Len(result.days) = input.existing + 1
    /\ result.offers = [k \in 1..Len(input.offers) |->
                           [day_id |-> result.dayId[1], store |-> input.offers[k]]]

NoneStored == Len(result.days) = input.existing /\ result.offers = <<>>

\* C27: after any call of saveDayWithOffers either the day row and all of the
\* given offers are stored or, when an insert failed, none of them is; the
\* database is never left with the day row alone or with a prefix of its
\* offers.
C27_SaveIsAtomic ==
    (fn = "saveDayWithOffers" /\ pc \in {"resolved", "rejected"}) =>
        IF pc = "resolved" THEN AllStored ELSE NoneStored

----------------------------------------------------------------------------
(* formatMinutes and parseDurationString (parseDuration under its exported
   name): a duration shown in a review form and saved unedited *)

MaxStoredMinutes == 3000

\* formatMinutes with the hours rounded instead of floored.
formatMinutes_RoundedHours(minutes) ==
    IF minutes = Null THEN ""
    ELSE IF (minutes[1] + 30) \div 60 = 0 THEN NumToString(minutes[1] % 60) \o "m"
    ELSE IF minutes[1] % 60 = 0 THEN NumToString((minutes[1] + 30) \div 60) \o "h"
    ELSE NumToString((minutes[1] + 30) \div 60) \o "h " \o NumToString(minutes[1] % 60) \o "m"

formatMinutes(minutes) ==
    IF minutes = Null THEN ""
    ELSE IF minutes[1] \div 60 = 0 THEN NumToString(minutes[1] % 60) \o "m"
    ELSE IF minutes[1] % 60 = 0 THEN NumToString(minutes[1] \div 60) \o "h"
    ELSE NumToString(minutes[1] \div 60) \o "h " \o NumToString(minutes[1] % 60) \o "m"

\* export { parseDuration as parseDurationString }
parseDurationString(t) == parseDuration(t)

InitRoundTrip ==
    /\ fn = "formatMinutes"
    /\ input \in {Null} \cup {Some(n) : n \in 0..MaxStoredMinutes}
    /\ text = ""
    /\ year = 0
    /\ pc = "parsed"
    /\ result = Null

\* parsedDayToFormState: active_time: formatMinutes(parsed?.active_time ?? null)
ShowInForm ==
    /\ fn = "formatMinutes"
    /\ pc = "parsed"
    /\ text' = formatMinutes(input)
    /\ pc' = "form"
    /\ UNCHANGED <<fn, input, year, result>>

\* handleSaveDay: active_time: parseDurationString(dayState.active_time)
SaveUnedited ==
    /\ fn = "formatMinutes"
    /\ pc = "form"
    /\ result' = parseDurationString(text)
    /\ pc' = "saved"
    /\ Frame

NextRoundTrip == ShowInForm \/ SaveUnedited

SpecRoundTrip == InitRoundTrip /\ [][NextRoundTrip]_vars

\* C28: for every integer number of minutes n >= 0,
\* parseDurationString(formatMinutes(n)) = n; formatMinutes(null) is the empty
\* string, which parses back to null: a duration shown in a form and saved
\* unedited keeps its value.
C28_DurationRoundTrip ==
    fn = "formatMinutes" =>
        /\ (pc = "form" /\ input = Null) => text = ""
        /\ pc = "saved" => result = input

C28_Witness ==
    /\ fn = "formatMinutes"
    /\ pc = "saved"
    /\ input = Some(90)
    /\ text = "1h 30m"
    /\ result = Some(90)

----------------------------------------------------------------------------
(* Steps 6 to 9 of preprocessImage with sharpen = true: the sharpening of a
   binarized canvas

   input.oriented is the buffer after step 5, three pixels wide; its two
   levels lie on the two sides of the default binaryThreshold, so that the
   global threshold yields every pattern of 0 and 255. *)

MaxBinaryRows == 3

OrientedLevels == {60, 200}

BinaryInputs ==
    UNION {[w : {3}, h : {h}, oriented : [1..(3 * h) -> OrientedLevels],
            binarizeMode : {"global", "adaptive"}, adaptiveRadius : {1},
            sharpenStrength4 : Strengths] :
              h \in 1..MaxBinaryRows}

BinaryOptions == Merge(DEFAULTS, [binarizeMode |-> input.binarizeMode,
                                  adaptiveRadius |-> input.adaptiveRadius,
                                  sharpenStrength4 |-> input.sharpenStrength4,
                                  paddingPx |-> 1])

InitBinary ==
    /\ fn = "sharpenBinarized"
    /\ input \in BinaryInputs
    /\ text = ""
    /\ year = 0
    /\ pc = "binarize"
    /\ result = [canvas |-> <<>>, sharpened |-> <<>>, final |-> Null]

\* Steps 6 and 7: binarize and write back to the canvas.
BinarizeAndWriteBack ==
    /\ fn = "sharpenBinarized"
    /\ pc = "binarize"
    /\ result' = [result EXCEPT
          !.canvas = WriteBack(Binarize(input.oriented, input.w, input.h, BinaryOptions))]
    /\ pc' = "sharpen"
    /\ Frame

\* Step 8 with opts.sharpen = true.
SharpenBinarized ==
    /\ fn = "sharpenBinarized"
    /\ pc = "sharpen"
    /\ result' = [result EXCEPT
          !.sharpened = applyLaplacianSharpen(result.canvas, input.w, input.h,
                                              BinaryOptions.sharpenStrength4)]
    /\ pc' = "pad"
    /\ Frame

\* Step 9: the padded canvas that is exported.
PadSharpened ==
    /\ fn = "sharpenBinarized"
    /\ pc = "pad"
    /\ result' = [result EXCEPT
          !.final = Some(applyPadding(result.sharpened, input.w, input.h,
                                      BinaryOptions.paddingPx))]
    /\ pc' = "done"
    /\ Frame

NextBinary == BinarizeAndWriteBack \/ SharpenBinarized \/ PadSharpened

SpecBinary == InitBinary /\ [][NextBinary]_vars

IsBinaryCanvas(canvas) ==
    \A i \in 1..Len(canvas) :
        /\ \A c \in 1..3 : canvas[i][c] \in {0, 255}
        /\ canvas[i][4] = 255

====
